---- MODULE Spec2Model ----
(***************************************************************************)
(* Model of the streamfreely token codec (src/src/services/tokenService.js):*)
(* the TokenService singleton with its in-memory tokenCache, the clock it   *)
(* reads through Date.now(), and the two operations generateToken and       *)
(* decodeToken.                                                             *)
(*                                                                          *)
(* Strings are sequences of one-character strings, so that split('.'),      *)
(* indexing, substring and single-character edits are computed as the code  *)
(* computes them.  Quality names ("original", "720p", ...) are whole values:*)
(* the code only uses them as map keys and inside the signed data.          *)
(*                                                                          *)
(* Time is counted in ticks; one hour (3600000 ms in the code) is           *)
(* TicksPerHour ticks.  The 24-hour lifetime is kept as 24 hours.           *)
(*                                                                          *)
(* The truncated SHA-256 digest is idealised: it is a deterministic         *)
(* function of (fileId, quality, expiryHours) under the fixed secret, six   *)
(* lower-case hex characters long, and the digests of two different inputs  *)
(* differ in at least two characters (no collision and no near-collision).  *)
(*                                                                          *)
(* The two stream routes of src/src/routes/api.js, GET /stream/:token.mp4   *)
(* and GET /universal/stream/*, are modelled one request at a time: pc is   *)
(* the position of the handler (each await and each upstream event is a     *)
(* step), res the response object, up the upstream calls issued.  What the  *)
(* upstream does (metadata, stream, origin response, error, timeout) is     *)
(* chosen freely, the client may close its connection while a body is      *)
(* forwarded.  tokenService.generateUniversalToken and                      *)
(* decodeUniversalToken are called by api.js but defined nowhere in the     *)
(* source at hand; they are the mint and the verify of a proxy token as the *)
(* design describes them.                                                   *)
(*                                                                          *)
(* Bodies are kept: the bytes piped to the client in arrival order, and the *)
(* lines of a rewritten playlist, each a text or the relay prefix with the  *)
(* token minted for it.  ProxySpec runs the universal route alone, with the *)
(* tokens read in the playlists it has sent among its inputs.               *)
(***************************************************************************)
EXTENDS Integers, Sequences, FiniteSets, TLC

(* ------------------------------ bounds --------------------------------- *)

\* Clock resolution: ticks per hour.
TicksPerHour == 2

\* First clock reading of a run, in whole hours since the epoch.
StartHour == 30

\* The clock runs for this many hours after the first reading.
MaxHours == 25

\* At most this many different tokens are issued in a run.
MaxGen == 2

\* Files of 1..MaxSize bytes are streamed; the numbers of a Range header go
\* one past MaxSize, and to ten times MaxSize.
MaxSize == 2

\* The body of an upstream response arrives in at most MaxChunks chunks.
MaxChunks == 2

\* The metadata cache sweeps when it holds more than MaxCached entries (100 in
\* the code).
MaxCached == 2

\* The metadata clock runs for this many ticks.
MaxInfoTicks == 4

\* The extension gives out rule ids up to MaxRuleId, and at most MaxTasks of
\* its calls are awaited at a time.
MaxRuleId == 3
MaxTasks == 2

\* At most MaxLookups calls of the Drive API are awaited at a time.
MaxLookups == 2

(* --------------------------- program constants ------------------------- *)

\* 3600000 ms, the divisor of the hour arithmetic, in ticks.
HourMs == TicksPerHour

\* this.tokenExpiry = 24 * 60 * 60 * 1000
tokenExpiry == 24 * HourMs

\* .substring(0, 6) of the hex digest
SigLen == 6

\* this.base62Chars
base62Chars ==
  << "0","1","2","3","4","5","6","7","8","9",
     "A","B","C","D","E","F","G","H","I","J","K","L","M",
     "N","O","P","Q","R","S","T","U","V","W","X","Y","Z",
     "a","b","c","d","e","f","g","h","i","j","k","l","m",
     "n","o","p","q","r","s","t","u","v","w","x","y","z" >>

\* What decodeToken returns for a rejected token.
Null == [fileId |-> <<"<null>">>, quality |-> "<null>"]

\* The value of qExpiry[0] when qExpiry is the empty string.
Undefined == "<undefined>"

\* An input of decodeToken that is not a string (undefined, a number, ...).
NonString == <<"<non-string>">>

(* ------------------------------ strings -------------------------------- *)

\* String.prototype.indexOf for a single character: 0-based, -1 if absent.
RECURSIVE IndexFrom(_, _, _)
IndexFrom(str, char, i) ==
  IF i > Len(str) THEN -1
  ELSE IF str[i] = char THEN i - 1
  ELSE IndexFrom(str, char, i + 1)

IndexOf(str, char) == IndexFrom(str, char, 1)

\* String.prototype.split('.'): the pieces between the dots, empty pieces kept.
RECURSIVE SplitDot(_)
SplitDot(str) ==
  IF \A i \in 1..Len(str) : str[i] # "."
  THEN << str >>
  ELSE LET k == CHOOSE i \in 1..Len(str) :
                  str[i] = "." /\ \A j \in 1..(i-1) : str[j] # "."
       IN  << SubSeq(str, 1, k-1) >> \o SplitDot(SubSeq(str, k+1, Len(str)))

\* `${a}.${b}.${c}`
JoinDot3(a, b, c) == a \o <<".">> \o b \o <<".">> \o c

(* ------------------------------ base62 --------------------------------- *)

RECURSIVE numToBase62Loop(_, _)
numToBase62Loop(num, result) ==
  IF num > 0
  THEN numToBase62Loop(num \div 62, << base62Chars[(num % 62) + 1] >> \o result)
  ELSE result

numToBase62(num) == IF num = 0 THEN << "0" >> ELSE numToBase62Loop(num, << >>)

RECURSIVE base62ToNumLoop(_, _)
base62ToNumLoop(str, result) ==
  IF str = << >>
  THEN result
  ELSE base62ToNumLoop(Tail(str), result * 62 + IndexOf(base62Chars, Head(str)))

base62ToNum(str) == base62ToNumLoop(str, 0)

(* --------------------------- quality characters ------------------------ *)

compressQuality(quality) ==
  CASE quality = "original" -> "o"
    [] quality = "1080p"    -> "h"
    [] quality = "720p"     -> "m"
    [] quality = "480p"     -> "s"
    [] quality = "360p"     -> "l"
    [] OTHER                -> "o"

\* decompressQuality without its map: every character reads as "original".
decompressQualityNoMap(char) == "original"

decompressQuality(char) ==
  CASE char = "o" -> "original"
    [] char = "h" -> "1080p"
    [] char = "m" -> "720p"
    [] char = "s" -> "480p"
    [] char = "l" -> "360p"
    [] OTHER      -> "original"

(* ------------------------------ the digest ----------------------------- *)

\* The characters tokens are edited with: a recognized quality character, a
\* digit (of base62 and of hex), the delimiter, and a character outside base62.
Alphabet == << "m", "0", ".", "-" >>

\* The (resourceRef, option) pairs generateToken is called with: a Drive-style
\* id with the recognized options "original" and "720p" and with the
\* unrecognized option "4k", and an id that holds the token delimiter.
GenInputs ==
  { << <<"a">>, "original" >>, << <<"a">>, "720p" >>, << <<"a">>, "4k" >>,
    << <<"a", ".", "b">>, "original" >> }

\* Every file id and every option value a digest is taken of.
IdTable ==
  << << >>, <<"a">>, <<"a", ".", "b">> >> \o [i \in 1..Len(Alphabet) |-> << Alphabet[i] >>]
QualityTable == << "original", "1080p", "720p", "480p", "360p", "4k" >>

HexChars == << "0","1","2","3","4","5","6","7","8","9","a","b","c","d","e","f" >>

\* The place of the signed data `${fileId}:${quality}:${expiryHours}:${secret}`
\* among all signed data: distinct data, distinct places (expiry values from -64
\* to 4031, which covers every expiry field of at most two characters).
SigDataIndex(fileId, quality, expiryHours) ==
  ((IndexOf(IdTable, fileId) + 1) * (Len(QualityTable) + 1)
      + (IndexOf(QualityTable, quality) + 1)) * 4096
    + (expiryHours + 64)

RECURSIVE Pow16(_)
Pow16(k) == IF k = 0 THEN 1 ELSE 16 * Pow16(k - 1)

\* crypto.createHash('sha256').update(sigData).digest('hex').substring(0, 6),
\* idealised: the six hex digits of 17 times the place of the signed data.  Two
\* multiples of 17 never differ in exactly one base-16 digit.
sha256Hex6(fileId, quality, expiryHours) ==
  LET v == 17 * SigDataIndex(fileId, quality, expiryHours)
  IN  [k \in 1..SigLen |-> HexChars[((v \div Pow16(SigLen - k)) % 16) + 1]]

(* ---------------------------- the token cache -------------------------- *)

\* new Map()
EmptyCache == [t \in {} |-> [fileId |-> << >>, quality |-> "", timestamp |-> 0]]

\* Map.prototype.set
CacheSet(cache, token, entry) ==
  [t \in (DOMAIN cache) \cup {token} |-> IF t = token THEN entry ELSE cache[t]]

\* Map.prototype.delete
CacheDelete(cache, token) == [t \in (DOMAIN cache) \ {token} |-> cache[t]]

(* ----------------------------- generateToken --------------------------- *)

\* The expiry hour computed without the clock reading.
expiryHoursNoClock(nowMs) == tokenExpiry \div HourMs

\* Math.floor((now + this.tokenExpiry) / 3600000)
expiryHoursAt(nowMs) == (nowMs + tokenExpiry) \div HourMs

\* The quality written into the signed data by generateToken.
signedQuality(quality) == quality

\* generateToken signing the clock reading instead of the expiry hour.
generateTokenStamped(cache, fileId, quality, nowMs) ==
  LET expiryHours  == expiryHoursAt(nowMs)
      expiryBase62 == numToBase62(expiryHours)
      qualityChar  == compressQuality(quality)
      signature    == sha256Hex6(fileId, signedQuality(quality), nowMs)
      token        == JoinDot3(fileId, << qualityChar >> \o expiryBase62, signature)
  IN  [ token |-> token,
        cache |-> CacheSet(cache, token,
                    [fileId |-> fileId, quality |-> quality, timestamp |-> nowMs]) ]

\* generateToken(fileId, quality) at clock reading nowMs: the token and the cache
\* it leaves.
generateToken(cache, fileId, quality, nowMs) ==
  LET expiryHours  == expiryHoursAt(nowMs)
      expiryBase62 == numToBase62(expiryHours)
      qualityChar  == compressQuality(quality)
      signature    == sha256Hex6(fileId, signedQuality(quality), expiryHours)
      token        == JoinDot3(fileId, << qualityChar >> \o expiryBase62, signature)
  IN  [ token |-> token,
        cache |-> CacheSet(cache, token,
                    [fileId |-> fileId, quality |-> quality, timestamp |-> nowMs]) ]

(* ------------------------------ decodeToken ---------------------------- *)

\* Date.now() - cached.timestamp < this.tokenExpiry
cacheFresh(nowMs, timestamp) == nowMs - timestamp < tokenExpiry

\* currentHours > expiryHours
isExpired(currentHours, expiryHours) == currentHours > expiryHours

\* A comparison loop that stops one character short of the signature.
sigMatchesButLast(providedSig, expectedSig) ==
  /\ Len(providedSig) = Len(expectedSig)
  /\ \A i \in 1..(Len(expectedSig) - 1) : providedSig[i] = expectedSig[i]

\* providedSig !== expectedSig, negated
sigMatches(providedSig, expectedSig) == providedSig = expectedSig

\* The timestamp decodeToken stores with a token it has verified.
recacheTimestamp(nowMs) == nowMs

\* The body of decodeToken's try block from the split on: the outcome for a
\* token that is not served from the cache ("threw" is the TypeError of
\* token.split on a value that is not a string).
parseAndVerify(cache, token, nowMs) ==
  IF token = NonString
  THEN [result |-> Null, cache |-> cache, why |-> "threw"]
  ELSE
  LET parts == SplitDot(token)
  IN  IF Len(parts) # 3
      THEN [result |-> Null, cache |-> cache, why |-> "format"]
      ELSE
      LET fileId       == parts[1]
          qExpiry      == parts[2]
          providedSig  == parts[3]
          qualityChar  == IF qExpiry = << >> THEN Undefined ELSE qExpiry[1]
          expiryBase62 == SubSeq(qExpiry, 2, Len(qExpiry))
          quality      == decompressQuality(qualityChar)
          expiryHours  == base62ToNum(expiryBase62)
          currentHours == nowMs \div HourMs
          expectedSig  == sha256Hex6(fileId, quality, expiryHours)
      IN  IF isExpired(currentHours, expiryHours)
          THEN [result |-> Null, cache |-> cache, why |-> "expired"]
          ELSE IF ~ sigMatches(providedSig, expectedSig)
          THEN [result |-> Null, cache |-> cache, why |-> "signature"]
          ELSE [ result |-> [fileId |-> fileId, quality |-> quality],
                 cache  |-> CacheSet(cache, token,
                              [fileId |-> fileId, quality |-> quality,
                               timestamp |-> recacheTimestamp(nowMs)]),
                 why    |-> "verified" ]

\* catch (error) { ...; return null; }
catchError(outcome) ==
  IF outcome.why = "threw" THEN [outcome EXCEPT !.result = Null, !.why = "caught"]
  ELSE outcome

\* decodeToken(token) at clock reading nowMs: what it returns, the cache it
\* leaves, and the branch that decided.
decodeToken(cache, token, nowMs) ==
  IF token \in DOMAIN cache /\ cacheFresh(nowMs, cache[token].timestamp)
  THEN [ result |-> [fileId |-> cache[token].fileId, quality |-> cache[token].quality],
         cache  |-> cache,
         why    |-> "cache" ]
  ELSE catchError(parseAndVerify(CacheDelete(cache, token), token, nowMs))

(* -------------------- numbers and the Range header --------------------- *)

\* A JavaScript number: an integer or NaN.
Num(v) == [nan |-> FALSE, v |-> v]
NaN == [nan |-> TRUE, v |-> 0]

\* a + b and a - b, NaN if either operand is.
Plus(a, b) == IF a.nan \/ b.nan THEN NaN ELSE Num(a.v + b.v)
Minus(a, b) == IF a.nan \/ b.nan THEN NaN ELSE Num(a.v - b.v)

Digits == << "0", "1", "2", "3", "4", "5", "6", "7", "8", "9" >>

IsDigit(char) == IndexOf(Digits, char) # -1

\* The decimal digits of a natural number.
RECURSIVE DecNat(_)
DecNat(n) ==
  IF n < 10 THEN << Digits[n + 1] >> ELSE DecNat(n \div 10) \o << Digits[(n % 10) + 1] >>

\* String(number), as a template literal and setHeader write it.
Dec(n) ==
  IF n.nan THEN << "N", "a", "N" >>
  ELSE IF n.v < 0 THEN << "-" >> \o DecNat(0 - n.v)
  ELSE DecNat(n.v)

\* The value of the leading run of digits of str, from position i on.
RECURSIVE parseDigits(_, _, _)
parseDigits(str, i, acc) ==
  IF i <= Len(str) /\ IsDigit(str[i])
  THEN parseDigits(str, i + 1, 10 * acc + IndexOf(Digits, str[i]))
  ELSE acc

\* The first position of str that holds no white space.
RECURSIVE skipSpace(_, _)
skipSpace(str, i) ==
  IF i <= Len(str) /\ str[i] = " " THEN skipSpace(str, i + 1) ELSE i

\* parseInt(str, 10): leading white space, an optional sign, then digits up to
\* the first character that is none; NaN without a digit.
parseInt(str) ==
  LET i    == skipSpace(str, 1)
      sign == IF i <= Len(str) /\ str[i] \in {"+", "-"} THEN str[i] ELSE ""
      j    == IF sign = "" THEN i ELSE i + 1
  IN  IF j <= Len(str) /\ IsDigit(str[j])
      THEN IF sign = "-" THEN Num(0 - parseDigits(str, j, 0))
           ELSE Num(parseDigits(str, j, 0))
      ELSE NaN

\* pat occurs in str at position i.
OccursAt(str, pat, i) ==
  /\ i + Len(pat) - 1 <= Len(str)
  /\ \A k \in 1..Len(pat) : str[i + k - 1] = pat[k]

\* str.replace(/pat/, ''): str without the first occurrence of pat.
RemoveFirst(str, pat) ==
  IF \E i \in 1..Len(str) : OccursAt(str, pat, i)
  THEN LET k == CHOOSE i \in 1..Len(str) :
                  OccursAt(str, pat, i) /\ \A j \in 1..(i-1) : ~ OccursAt(str, pat, j)
       IN  SubSeq(str, 1, k - 1) \o SubSeq(str, k + Len(pat), Len(str))
  ELSE str

\* str.split('-')
RECURSIVE SplitDash(_)
SplitDash(str) ==
  IF \A i \in 1..Len(str) : str[i] # "-"
  THEN << str >>
  ELSE LET k == CHOOSE i \in 1..Len(str) :
                  str[i] = "-" /\ \A j \in 1..(i-1) : str[j] # "-"
       IN  << SubSeq(str, 1, k-1) >> \o SplitDash(SubSeq(str, k+1, Len(str)))

BytesEq == << "b", "y", "t", "e", "s", "=" >>

\* A request without a Range header: req.headers.range is undefined.
NoHeader == << "<no header>" >>

\* Every request taken to carry a range.
TruthyAlways(str) == TRUE

\* if (range): the header is present and not the empty string.
Truthy(str) == str # NoHeader /\ str # << >>

\* The same with an omitted end read as fileSize.
parseRangeEndAtSize(range, fileSize) ==
  LET parts == SplitDash(RemoveFirst(range, BytesEq))
  IN  [ start |-> parseInt(parts[1]),
        end   |-> IF Len(parts) >= 2 /\ parts[2] # << >>
                  THEN parseInt(parts[2])
                  ELSE fileSize ]

\* The start and end the stream route reads from a Range header.
parseRange(range, fileSize) ==
  LET parts == SplitDash(RemoveFirst(range, BytesEq))
  IN  [ start |-> parseInt(parts[1]),
        end   |-> IF Len(parts) >= 2 /\ parts[2] # << >>
                  THEN parseInt(parts[2])
                  ELSE Minus(fileSize, Num(1)) ]

\* `bytes ${start}-${end}/${fileSize}`
contentRange(start, end, fileSize) ==
  << "b", "y", "t", "e", "s", " " >> \o Dec(start) \o << "-" >> \o Dec(end)
     \o << "/" >> \o Dec(fileSize)

(* ------------------------------ more strings --------------------------- *)

LF == "\n"
CR == "\r"

\* str.split(char) for a one-character separator.
RECURSIVE Split(_, _)
Split(str, char) ==
  LET k == IndexOf(str, char)
  IN  IF k = -1 THEN << str >>
      ELSE << SubSeq(str, 1, k) >> \o Split(SubSeq(str, k + 2, Len(str)), char)

\* The white space String.prototype.trim() removes.
WhiteSpace == {" ", "\t", CR, LF}

RECURSIVE trimStart(_)
trimStart(str) ==
  IF str # << >> /\ Head(str) \in WhiteSpace THEN trimStart(Tail(str)) ELSE str

RECURSIVE trimEnd(_)
trimEnd(str) ==
  IF str # << >> /\ str[Len(str)] \in WhiteSpace
  THEN trimEnd(SubSeq(str, 1, Len(str) - 1))
  ELSE str

\* String.prototype.trim()
trim(str) == trimEnd(trimStart(str))

\* String.prototype.startsWith(prefix)
startsWith(str, prefix) == OccursAt(str, prefix, 1)

\* String.prototype.includes(pat)
includes(str, pat) == \E i \in 1..(Len(str) + 1) : OccursAt(str, pat, i)

\* String.prototype.lastIndexOf for a single character: 0-based, -1 if absent.
RECURSIVE LastIndexFrom(_, _, _)
LastIndexFrom(str, char, i) ==
  IF i < 1 THEN -1
  ELSE IF str[i] = char THEN i - 1
  ELSE LastIndexFrom(str, char, i - 1)

lastIndexOf(str, char) == LastIndexFrom(str, char, Len(str))

UpperCase == SubSeq(base62Chars, 11, 36)
LowerCase == SubSeq(base62Chars, 37, 62)
Letters == { base62Chars[i] : i \in 11..62 }

\* The lower-case letter of each capital.
LowerOf == [ c \in { UpperCase[i] : i \in 1..26 } |-> LowerCase[IndexOf(UpperCase, c) + 1] ]

\* String.prototype.toLowerCase()
toLowerCase(str) ==
  [ i \in 1..Len(str) |-> IF str[i] \in DOMAIN LowerOf THEN LowerOf[str[i]] ELSE str[i] ]

(* ---------------------------- proxy tokens ----------------------------- *)

\* The options bag of a proxy token.
Options(buffer, proxy, type) == [buffer |-> buffer, proxy |-> proxy, type |-> type]

\* What decodeUniversalToken returns for a token it does not accept.
NoTokenData == [sourceUrl |-> << >>, options |-> Options(FALSE, FALSE, "")]

\* A string that verifies as no proxy token (malformed, tampered or expired).
NoToken == [valid |-> FALSE, sourceUrl |-> << >>, options |-> Options(FALSE, FALSE, "")]

\* mint(payload) of a proxy token: the token stands for the source URL and the
\* options it was issued for.
generateUniversalToken(sourceUrl, options) ==
  [valid |-> TRUE, sourceUrl |-> sourceUrl, options |-> options]

\* verify(token) of a proxy token: its payload, or Invalid.
decodeUniversalToken(token) ==
  IF token.valid
  THEN [sourceUrl |-> token.sourceUrl, options |-> token.options]
  ELSE NoTokenData

(* --------------------------- manifest rewriting ------------------------ *)

Http == << "h", "t", "t", "p", ":", "/", "/" >>
Https == << "h", "t", "t", "p", "s", ":", "/", "/" >>

\* detectStreamType(url)
detectStreamType(url) ==
  LET urlLower == toLowerCase(url)
  IN  IF includes(urlLower, << ".", "m", "3", "u", "8" >>)
         \/ includes(urlLower, << "h", "l", "s" >>) THEN "HLS"
      ELSE IF includes(urlLower, << ".", "m", "p", "d" >>)
              \/ includes(urlLower, << "d", "a", "s", "h" >>) THEN "DASH"
      ELSE IF includes(urlLower, << ".", "m", "p", "4" >>) THEN "MP4"
      ELSE IF includes(urlLower, << ".", "w", "e", "b", "m" >>) THEN "WebM"
      ELSE IF includes(urlLower, << ".", "m", "k", "v" >>) THEN "MKV"
      ELSE "Universal"

\* const streamType = options.type || detectStreamType(sourceUrl)
streamTypeOf(tokenData) ==
  IF tokenData.options.type # "" THEN tokenData.options.type
  ELSE detectStreamType(tokenData.sourceUrl)

\* sourceUrl.substring(0, sourceUrl.lastIndexOf('/') + 1)
baseSourceUrl(sourceUrl) == SubSeq(sourceUrl, 1, lastIndexOf(sourceUrl, "/") + 1)

\* The absolute URL the rewrite takes a URL line to stand for.
absoluteUrl(line, sourceUrl) ==
  IF startsWith(line, Http) \/ startsWith(line, Https)
  THEN line
  ELSE baseSourceUrl(sourceUrl) \o line

\* The options of a minted token: the parent's buffer and proxy left out.
segmentOptionsDefault(options) == Options(TRUE, TRUE, "segment")

\* The options the rewrite mints a segment token with.
segmentOptions(options) == Options(options.buffer, options.proxy, "segment")

\* `${baseProxyUrl}/api/universal/stream/`
StreamPrefix == << "<baseProxyUrl>", "/api/universal/stream/" >>

\* A line of a body the relay sends: its text, and the token appended to it
\* (NoToken: none).
TextLine(text) == [text |-> text, token |-> NoToken]
TokenLine(token) == [text |-> StreamPrefix, token |-> token]

\* A URL line: not empty and no directive.
IsUrlLine(line) == line # << >> /\ ~ startsWith(line, << "#" >>)

\* The callback of body.split('\n').map(...): one line of the playlist.
rewriteLine(rawLine, tokenData) ==
  LET line == trim(rawLine)
  IN  IF IsUrlLine(line)
      THEN TokenLine(generateUniversalToken(absoluteUrl(line, tokenData.sourceUrl),
                                            segmentOptions(tokenData.options)))
      ELSE TextLine(line)

\* body.split('\n').map(...): the lines of the rewritten playlist, which
\* join('\n') puts together.
rewriteBody(body, tokenData) ==
  LET lines == Split(body, LF)
  IN  [ i \in 1..Len(lines) |-> rewriteLine(lines[i], tokenData) ]

(* ------------------------- the client response ------------------------ *)

\* The body res.json() writes on an error, and the bodies of a relayed stream:
\* the bytes piped so far, or the lines of a rewritten playlist.
NoBody ==
  [kind |-> "none", error |-> "", message |-> "", bytes |-> << >>, lines |-> << >>]
JsonBody(error, message) ==
  [kind |-> "json", error |-> error, message |-> message, bytes |-> << >>, lines |-> << >>]
BytesBody(bytes) ==
  [kind |-> "bytes", error |-> "", message |-> "", bytes |-> bytes, lines |-> << >>]
PlaylistBody(lines) ==
  [kind |-> "playlist", error |-> "", message |-> "", bytes |-> << >>, lines |-> lines]

\* The Content-Length res.json() / res.send() compute from the body they write.
BodyLength == << "<body length>" >>

\* A header copied from the upstream response.
Mirrored == << "<upstream value>" >>

\* The response object a handler receives: status 200, nothing set or sent.
\* heads counts the response heads written to the client; lateWrite records a
\* res.json() / res.send() on a response whose head is already out.
NoResponse ==
  [ statusCode    |-> 200,
    contentLength |-> NoHeader,
    contentRange  |-> NoHeader,
    headersSent   |-> FALSE,
    body          |-> NoBody,
    ended         |-> FALSE,
    heads         |-> 0,
    lateWrite     |-> FALSE ]

\* The head goes to the client with the status and headers set so far.
Commit(r) == [r EXCEPT !.headersSent = TRUE, !.heads = @ + 1]

\* res.send(body): the head and the whole body, or ERR_HTTP_HEADERS_SENT when
\* the head is out already.
send(r, body) ==
  IF r.headersSent
  THEN [r EXCEPT !.lateWrite = TRUE]
  ELSE Commit([r EXCEPT !.contentLength = BodyLength, !.body = body, !.ended = TRUE])

\* res.status(status).json({error, message})
statusJson(r, status, error, message) ==
  send([r EXCEPT !.statusCode = status], JsonBody(error, message))

\* The same without the test of res.headersSent.
unguardedJson(r, status, error, message) == statusJson(r, status, error, message)

\* if (!res.headersSent) res.status(status).json({error, message})
guardedJson(r, status, error, message) ==
  IF ~ r.headersSent THEN statusJson(r, status, error, message) ELSE r

\* A pipe that writes each chunk ahead of what it wrote before.
writeChunkAhead(r, chunk) ==
  LET w == [r EXCEPT !.body = BytesBody(chunk \o r.body.bytes)]
  IN  IF r.headersSent THEN w ELSE Commit(w)

\* stream.pipe(res) on a chunk: res.write(chunk); the first write sends the head.
writeChunk(r, chunk) ==
  LET w == [r EXCEPT !.body = BytesBody(r.body.bytes \o chunk)]
  IN  IF r.headersSent THEN w ELSE Commit(w)

\* stream.pipe(res) on the end of the source: res.end().
endPipe(r) ==
  LET w == IF r.headersSent THEN r
           ELSE Commit([r EXCEPT !.body = BytesBody(r.body.bytes)])
  IN  [w EXCEPT !.ended = TRUE]

(* --------------------------- the upstream calls ------------------------ *)

\* No upstream call made: no metadata lookup, no content stream, no HTTP
\* request.  range is the Range header of the content stream request or of
\* the HTTP request; open, that a call is awaited or its connection is in use.
NoUpstream ==
  [ metadata |-> FALSE, stream |-> FALSE, range |-> NoHeader,
    http |-> FALSE, destroyed |-> FALSE, open |-> FALSE ]

\* A streamFile that asks for everything from start on, whatever the end.
streamFileRangeOpenEnd(start, end) == BytesEq \o Dec(start) \o << "-" >>

\* driveService.streamFile(fileId, start, end): the Range header it sends.
streamFileRange(start, end) == BytesEq \o Dec(start) \o << "-" >> \o Dec(end)

(* ----------------------- the stream route's range ---------------------- *)

\* What the stream route sets on the response and asks of the content stream,
\* from the Range header of the request and the size of the file.
resolveRange(r, range, size) ==
  LET fileSize == parseInt(size)
  IN  IF Truthy(range)
      THEN LET parsed    == parseRange(range, fileSize)
               start     == parsed.start
               end       == parsed.end
               chunkSize == Plus(Minus(end, start), Num(1))
           IN  [ res   |-> [r EXCEPT !.statusCode = 206,
                                     !.contentRange = contentRange(start, end, fileSize),
                                     !.contentLength = Dec(chunkSize)],
                 range |-> streamFileRange(start, end) ]
      ELSE [ res   |-> [r EXCEPT !.contentLength = Dec(fileSize)],
             range |-> NoHeader ]

(* --------------------- the quality analyzer (driveService.js) ---------- *)

\* A field the Drive API left out, as parseInt reads it: String(undefined).
Absent == << "u", "n", "d", "e", "f", "i", "n", "e", "d" >>

\* parseInt(field, 10) || 0
intOrZero(field) ==
  LET n == parseInt(field)
  IN  IF n.nan THEN 0 ELSE n.v

\* Math.round(a / b) for a >= 0 and b > 0.
RoundDiv(a, b) == (2 * a + b) \div (2 * b)

\* durationSeconds > 0 ? Math.round((fileSize * 8) / durationSeconds) : 0,
\* with durationSeconds = durationMs / 1000.
sourceBitrateOf(fileSize, durationMs) ==
  IF durationMs > 0 THEN RoundDiv(fileSize * 8 * 1000, durationMs) ELSE 0

\* The presets of generateQualityOptions below 'original'.
TierPresets ==
  << [id |-> "1080p", height |-> 1080, bitrate |-> 8000000],
     [id |-> "720p",  height |-> 720,  bitrate |-> 5000000],
     [id |-> "480p",  height |-> 480,  bitrate |-> 2500000],
     [id |-> "360p",  height |-> 360,  bitrate |-> 1000000] >>

\* const presets = [...]
presets(sourceHeight, sourceBitrate) ==
  << [id |-> "original", height |-> sourceHeight, bitrate |-> sourceBitrate] >>
    \o TierPresets

\* A filter that offers every preset.
tierOfferedAlways(preset, sourceHeight) == TRUE

\* preset.id === 'original' || preset.height <= sourceHeight
tierOffered(preset, sourceHeight) ==
  preset.id = "original" \/ preset.height <= sourceHeight

\* A target bitrate that is the preset's own.
targetBitrateOfPreset(preset, sourceBitrate) == preset.bitrate

\* preset.id === 'original' ? sourceBitrate : Math.min(preset.bitrate, sourceBitrate)
targetBitrate(preset, sourceBitrate) ==
  IF preset.id = "original" THEN sourceBitrate
  ELSE IF preset.bitrate <= sourceBitrate THEN preset.bitrate ELSE sourceBitrate

\* preset.id === 'original' ? sourceWidth : Math.round(preset.height * aspectRatio)
\* (a source of height 0 gives no finite ratio: 0 stands for it)
targetWidth(preset, sourceWidth, sourceHeight) ==
  IF preset.id = "original" THEN sourceWidth
  ELSE IF sourceHeight > 0 THEN RoundDiv(preset.height * sourceWidth, sourceHeight)
  ELSE 0

\* The option pushed for a preset.
qualityOption(preset, sourceWidth, sourceHeight, sourceBitrate) ==
  [ id         |-> preset.id,
    width      |-> targetWidth(preset, sourceWidth, sourceHeight),
    height     |-> IF preset.id = "original" THEN sourceHeight ELSE preset.height,
    bitrate    |-> targetBitrate(preset, sourceBitrate),
    isOriginal |-> preset.id = "original" ]

\* generateQualityOptions(sourceWidth, sourceHeight, sourceBitrate)
generateQualityOptions(sourceWidth, sourceHeight, sourceBitrate) ==
  LET all     == presets(sourceHeight, sourceBitrate)
      offered == SelectSeq(all, LAMBDA preset : tierOffered(preset, sourceHeight))
  IN  [ i \in 1..Len(offered) |->
          qualityOption(offered[i], sourceWidth, sourceHeight, sourceBitrate) ]

\* The metadata of a file as the Drive API returns it (fields
\* 'id,name,size,mimeType,videoMediaMetadata'); null is NoFileInfo.
FileInfo(size, mimeType, width, height, durationMillis) ==
  [ found |-> TRUE, size |-> size, mimeType |-> mimeType, width |-> width,
    height |-> height, durationMillis |-> durationMillis ]

NoMimeType == << "<undefined>" >>
NoFileInfo ==
  [ found |-> FALSE, size |-> Absent, mimeType |-> NoMimeType, width |-> Absent,
    height |-> Absent, durationMillis |-> Absent ]

\* analyzeVideoQuality(fileInfo): the numbers of its result.
analyzeVideoQuality(fileInfo) ==
  LET fileSize   == intOrZero(fileInfo.size)
      durationMs == intOrZero(fileInfo.durationMillis)
      width      == intOrZero(fileInfo.width)
      height     == intOrZero(fileInfo.height)
      bitrate    == sourceBitrateOf(fileSize, durationMs)
  IN  [ width |-> width, height |-> height, durationMs |-> durationMs,
        bitrate |-> bitrate, fileSize |-> fileSize,
        qualityOptions |-> generateQualityOptions(width, height, bitrate) ]

\* No analysis made.
NoQualityInfo ==
  [ width |-> 0, height |-> 0, durationMs |-> 0, bitrate |-> 0, fileSize |-> 0,
    qualityOptions |-> << >> ]

(* ------------------- POST /analyze and /generate-link (api.js) --------- *)

\* A field of the request body that is not given (undefined or '').
NoField == << >>
Given(field) == field # NoField

\* [a-zA-Z0-9_-]
IdChars == Letters \cup { Digits[i] : i \in 1..Len(Digits) } \cup {"_", "-"}

\* The end of the run of id characters of url that starts at position i.
RECURSIVE idRunEnd(_, _)
idRunEnd(url, i) ==
  IF i <= Len(url) /\ url[i] \in IdChars THEN idRunEnd(url, i + 1) ELSE i - 1

\* url.match(/<pat>([a-zA-Z0-9_-]+)/)[1] for the literal prefixes pats: the id
\* after the leftmost occurrence of one of them that an id character follows;
\* NoField without a match.
matchId(url, pats) ==
  LET hits == { i \in 1..Len(url) :
                  \E pat \in pats :
                    /\ OccursAt(url, pat, i)
                    /\ i + Len(pat) <= Len(url)
                    /\ url[i + Len(pat)] \in IdChars }
  IN  IF hits = {} THEN NoField
      ELSE LET i   == CHOOSE h \in hits : \A g \in hits : h <= g
               pat == CHOOSE q \in pats : OccursAt(url, q, i)
           IN  SubSeq(url, i + Len(pat), idRunEnd(url, i + Len(pat)))

\* driveService.extractFileId(url) on a url of fewer than 25 characters, for
\* which the two patterns of 25 id characters and more never match: the
\* patterns /\/file\/d\/(...)/ and /[?&]id=(...)/ in that order (the pattern
\* /\/uc\?.*id=(...)/ comes after them and matches none of the urls the second
\* one leaves).  NoField is null.
extractFileId(url) ==
  IF ~ Given(url) THEN NoField
  ELSE LET byPath == matchId(url, { << "/", "f", "i", "l", "e", "/", "d", "/" >> })
       IN  IF Given(byPath) THEN byPath
           ELSE matchId(url, { << "?", "i", "d", "=" >>, << "&", "i", "d", "=" >> })

\* A check that takes every file for a video.
isVideoAlways(mimeType) == TRUE

\* fileInfo.mimeType?.startsWith('video/')
isVideo(mimeType) ==
  mimeType # NoMimeType /\ startsWith(mimeType, << "v", "i", "d", "e", "o", "/" >>)

\* quality || 'original'
selectedQualityOf(quality) == IF quality = "" THEN "original" ELSE quality

\* qualityInfo.qualityOptions.find(q => q.id === selectedQuality)
\*   || qualityInfo.qualityOptions[0]
selectedOption(qualityOptions, selectedQuality) ==
  LET found == SelectSeq(qualityOptions, LAMBDA q : q.id = selectedQuality)
  IN  IF Len(found) > 0 THEN found[1] ELSE qualityOptions[1]

\* res.json({ success: true, data })
sendData(r) == send(r, JsonBody("", ""))

\* No request on the two routes.  A request keeps the file id and the options
\* its handler read, its response, and of the data of a success response: the
\* token in streamUrl, the id of the quality reported as selected and the
\* analysis; minted records a call of generateToken.
NoApi ==
  [ at |-> "idle", route |-> "", fileId |-> NoField, quality |-> "", quick |-> FALSE,
    res |-> NoResponse, info |-> NoFileInfo, streamToken |-> NoField,
    selectedQuality |-> "", qualityInfo |-> NoQualityInfo, minted |-> FALSE ]

(* ------------------- the metadata cache (driveService.js) -------------- *)

\* this.cacheTTL = 5 * 60 * 1000, in ticks of the metadata clock.
cacheTTL == 2

\* this.fileInfoCache = new Map(): fileId -> {data, timestamp}
EmptyInfoCache == [f \in {} |-> [data |-> "", timestamp |-> 0]]

\* An entry that counts as fresh at any age.
infoFreshAlways(nowMs, timestamp) == TRUE

\* Date.now() - cached.timestamp < this.cacheTTL
infoFresh(nowMs, timestamp) == nowMs - timestamp < cacheTTL

\* now - value.timestamp > this.cacheTTL
infoStale(nowMs, timestamp) == nowMs - timestamp > cacheTTL

\* getCachedFileInfo(fileId): the data returned ("" is null) and the cache it
\* leaves.
getCachedFileInfo(cache, fileId, nowMs) ==
  IF fileId \in DOMAIN cache /\ infoFresh(nowMs, cache[fileId].timestamp)
  THEN [ data |-> cache[fileId].data, cache |-> cache ]
  ELSE [ data |-> "", cache |-> CacheDelete(cache, fileId) ]

\* this.fileInfoCache.size > 100, the size counted in entries of the model
sweepDue(size) == size > MaxCached

\* setCachedFileInfo(fileId, data): the cache it leaves.
setCachedFileInfo(cache, fileId, data, nowMs) ==
  LET set == CacheSet(cache, fileId, [data |-> data, timestamp |-> nowMs])
  IN  IF sweepDue(Cardinality(DOMAIN set))
      THEN [ f \in { g \in DOMAIN set : ~ infoStale(nowMs, set[g].timestamp) } |-> set[f] ]
      ELSE set

\* The file ids looked up: one more than the cache holds before it sweeps.
LookupIds == 1..(MaxCached + 1)

\* No lookup made.  pending counts the calls of drive.files.get awaited, by
\* file id; last is the most recent step of getFileInfo: the call up to its
\* await ("get": hit tells a return from the cache, age the age of the entry
\* it found, -1 for none) or the return of drive.files.get ("set", "null",
\* "throw": swept counts the entries the sweep removed); flip changes with
\* every such step.
NoDrive ==
  [ now |-> 0,
    pending |-> [f \in LookupIds |-> 0],
    last |-> [ op |-> "", fileId |-> 0, hit |-> FALSE, age |-> -1, swept |-> 0,
               flip |-> FALSE ] ]

(* ------------------ the extension's background worker ------------------ *)

\* domain.replace(/^https?:\/\//, '').replace(/\/.*$/, '')
cleanDomain(domain) ==
  LET bare == IF startsWith(domain, Https) THEN SubSeq(domain, Len(Https) + 1, Len(domain))
              ELSE IF startsWith(domain, Http) THEN SubSeq(domain, Len(Http) + 1, Len(domain))
              ELSE domain
      slash == IndexOf(bare, "/")
  IN  IF slash = -1 THEN bare ELSE SubSeq(bare, 1, slash)

\* new Map() / {}: domain -> rule id
NoRules == [d \in {} |-> 0]

\* Object.entries(stored) applied in turn: activeRules.set(domain, ruleId)
loadedRules(activeRules, stored) ==
  [ d \in (DOMAIN activeRules) \cup (DOMAIN stored) |->
      IF d \in DOMAIN stored THEN stored[d] ELSE activeRules[d] ]

\* ruleIdCounter = Math.max(ruleIdCounter, ruleId + 1) over the stored entries
RECURSIVE loadedCounter(_, _, _)
loadedCounter(counter, stored, domains) ==
  IF domains = {} THEN counter
  ELSE LET d    == CHOOSE x \in domains : TRUE
           next == IF counter >= stored[d] + 1 THEN counter ELSE stored[d] + 1
       IN  loadedCounter(next, stored, domains \ {d})

\* The calls the worker awaits, in the order it made them: op is the function
\* awaiting, at the call awaited ("update": updateDynamicRules, "save":
\* storage.local.set, "get": storage.local.get), ok whether the call succeeds,
\* stored what storage.local.get read.
Task(op, domain, ruleId, at, ok, stored) ==
  [ op |-> op, domain |-> domain, ruleId |-> ruleId, at |-> at, ok |-> ok,
    stored |-> stored ]

\* loadActiveRules() up to its await.
LoadTask(stored) == Task("load", << >>, 0, "get", TRUE, stored)

\* The response last sent to a message.
NoReply == [ type |-> "", domain |-> << >>, success |-> FALSE, message |-> "" ]
Reply(type, domain, success, message) ==
  [ type |-> type, domain |-> domain, success |-> success, message |-> message ]

\* The worker as its script leaves it at start: ruleIdCounter = 1, activeRules
\* empty, loadActiveRules() awaiting chrome.storage.local.get.  dynamicRules
\* are the rules installed in the browser, storage is activeStreamRules in
\* chrome.storage.local: both outlive the worker.
WorkerStart(dynamicRules, storage) ==
  [ ruleIdCounter |-> 1, activeRules |-> NoRules, tasks |-> << LoadTask(storage) >>,
    dynamicRules |-> dynamicRules, storage |-> storage, last |-> NoReply ]

\* The browser API a task awaits.  The browser serves the calls to one API in
\* the order they were made, so a call returns after the earlier ones.
apiOf(task) == IF task.at = "update" THEN "declarativeNetRequest" ELSE "storage"
returns(tasks, i) == \A j \in 1..(i - 1) : apiOf(tasks[j]) # apiOf(tasks[i])

\* tasks without its i-th, and with its i-th replaced by a later call.
without(tasks, i) == SubSeq(tasks, 1, i - 1) \o SubSeq(tasks, i + 1, Len(tasks))
recalled(tasks, i, task) == Append(without(tasks, i), task)

\* The ids of the rules installed.
ruleIds(dynamicRules) == { rule.id : rule \in dynamicRules }

\* activeRules.set(domain, ruleId) and activeRules.delete(domain)
mapSet(rules, domain, ruleId) ==
  [ d \in (DOMAIN rules) \cup {domain} |-> IF d = domain THEN ruleId ELSE rules[d] ]
mapDelete(rules, domain) == [ d \in (DOMAIN rules) \ {domain} |-> rules[d] ]

(* ------------------------------- the state ----------------------------- *)

VARIABLES
  now,            \* Date.now(), in ticks
  tokenCache,     \* this.tokenCache: token -> {fileId, quality, timestamp}
  issued,         \* history: token -> the generateToken call that last returned it
  expiredTokens,  \* history: the issued tokens decodeToken has rejected as expired
  last,           \* the most recent call and what it returned
  pc,             \* the stream request in flight: the position of its handler
  res,            \* its response: status, headers, what went to the client
  up,             \* the upstream calls the handler has issued for it
  api,            \* the request on /analyze or /generate-link and its response
  fileInfoCache,  \* driveService.fileInfoCache: fileId -> {data, timestamp}
  drive,          \* the metadata clock and the getFileInfo calls in flight
  ext             \* the extension worker: its memory, the browser's rules and storage

codecVars == << now, tokenCache, issued, expiredTokens, last >>
relayVars == << pc, res, up >>
serviceVars == << api, fileInfoCache, drive, ext >>
vars ==
  << now, tokenCache, issued, expiredTokens, last, pc, res, up,
     api, fileInfoCache, drive, ext >>

StartTick == StartHour * TicksPerHour
EndTick == StartTick + MaxHours * TicksPerHour

AlphabetSet == { Alphabet[i] : i \in 1..Len(Alphabet) }

\* No request in flight.  A request in flight keeps what its handler read from
\* it: the route, the Range header, the size the metadata lookup returned, the
\* payload and the stream type of a universal token, the content type it took
\* the origin's response to have and the body received from upstream so far
\* (in chunks: that many chunks), the method of the request and the handler
\* the router gave it to; and, as history, whether the codec accepted
\* its token, the upstream event handled last, the status code of the origin's
\* response (0: none), and whether the head was out when an upstream failure
\* was handled.
Idle ==
  [ at |-> "idle", route |-> "", range |-> NoHeader, size |-> << >>, type |-> "",
    valid |-> FALSE, event |-> "", origin |-> 0,
    data |-> NoTokenData, contentType |-> "", body |-> << >>, chunks |-> 0,
    late |-> FALSE, method |-> "get", handler |-> "" ]

NoCall(op) ==
  [ op |-> op, token |-> << >>, result |-> Null, why |-> "", wasExpired |-> FALSE,
    again |-> FALSE ]

Init ==
  /\ now = StartTick
  /\ tokenCache = EmptyCache
  /\ issued = [t \in {} |-> [fileId |-> << >>, quality |-> "", at |-> 0, expiryHours |-> 0]]
  /\ expiredTokens = {}
  /\ last = NoCall("start")
  /\ pc = Idle
  /\ res = NoResponse
  /\ up = NoUpstream
  /\ api = NoApi
  /\ fileInfoCache = EmptyInfoCache
  /\ drive = NoDrive
  /\ ext = WorkerStart({}, NoRules)

\* A call generateToken(fileId, quality).
GenerateToken(fileId, quality) ==
  LET g == generateToken(tokenCache, fileId, quality, now)
  IN  /\ g.token \in DOMAIN issued \/ Cardinality(DOMAIN issued) < MaxGen
      /\ tokenCache' = g.cache
      /\ issued' = [t \in (DOMAIN issued) \cup {g.token} |->
                      IF t = g.token
                      THEN [ fileId |-> fileId, quality |-> quality, at |-> now,
                             expiryHours |-> expiryHoursAt(now) ]
                      ELSE issued[t]]
      /\ last' = [NoCall("generateToken") EXCEPT
                    !.token = g.token,
                    !.again = g.token \in DOMAIN issued /\ issued[g.token].at < now]
      /\ UNCHANGED << now, expiredTokens >>
      /\ UNCHANGED relayVars

\* A call decodeToken(token).
DecodeToken(token) ==
  LET d == decodeToken(tokenCache, token, now)
  IN  /\ tokenCache' = d.cache
      /\ expiredTokens' = IF d.why = "expired" /\ token \in DOMAIN issued
                          THEN expiredTokens \cup {token}
                          ELSE expiredTokens
      /\ last' = [ op |-> "decodeToken", token |-> token, result |-> d.result,
                   why |-> d.why, wasExpired |-> token \in expiredTokens,
                   again |-> FALSE ]
      /\ UNCHANGED << now, issued >>

\* decodeToken on a token this process has issued.
DecodeIssued ==
  /\ \E token \in DOMAIN issued : DecodeToken(token)
  /\ UNCHANGED << relayVars, serviceVars >>

\* The positions of a token that hold its signature segment.
SigPositions(token) == (Len(token) - SigLen + 1) .. Len(token)

\* token with the character at position i replaced by c.
Edit(token, i, c) == [token EXCEPT ![i] = c]

\* The positions edited: all of a three-field token, the signature of any token.
EditPositions(token) ==
  IF Len(SplitDot(token)) = 3 THEN 1..Len(token) ELSE SigPositions(token)

\* decodeToken on an issued token with one character replaced by another one.
DecodeEdited ==
  \E token \in DOMAIN issued :
    \E i \in EditPositions(token) :
      \E c \in AlphabetSet \ {token[i]} :
        DecodeToken(Edit(token, i, c)) /\ UNCHANGED << relayVars, serviceVars >>

\* Inputs that are no tokens: a value that is not a string, the empty string,
\* two fields, four fields, an empty second field, an empty expiry, an expiry
\* that is no base62 number.
Malformed ==
  { NonString,
    << >>,
    << "a", ".", "o" >>,
    << "a", ".", "o", "0", ".", "f", "." >>,
    << "a", ".", ".", "f" >>,
    << "a", ".", "o", ".", "f" >>,
    << "a", ".", "o", "-", ".", "f" >> }

DecodeMalformed ==
  /\ \E token \in Malformed : DecodeToken(token)
  /\ UNCHANGED << relayVars, serviceVars >>

\* The clock advances.
Tick ==
  /\ now < EndTick
  /\ now' = now + 1
  /\ last' = NoCall("tick")
  /\ UNCHANGED << tokenCache, issued, expiredTokens >>
  /\ UNCHANGED << relayVars, serviceVars >>

\* The process restarts: the in-memory cache is lost.
Restart ==
  /\ tokenCache # EmptyCache
  /\ tokenCache' = EmptyCache
  /\ last' = NoCall("restart")
  /\ UNCHANGED << now, issued, expiredTokens >>
  /\ UNCHANGED << relayVars, serviceVars >>

\* generateToken is called in the first hour of a run, for one (fileId,
\* quality) pair (which may be asked again), and at its last two clock readings.
Generate ==
  \E in \in GenInputs :
    /\ \/ /\ now < StartTick + TicksPerHour
          /\ \A t \in DOMAIN issued :
               issued[t].fileId = in[1] /\ issued[t].quality = in[2]
       \/ now >= EndTick - 1
    /\ GenerateToken(in[1], in[2])
    /\ UNCHANGED serviceVars

\* generateToken is called with any of its inputs.
GenerateAny ==
  \E in \in GenInputs : GenerateToken(in[1], in[2]) /\ UNCHANGED serviceVars

(* ------------------ GET /stream/:token.mp4 (api.js) -------------------- *)

\* fileInfo.size as the metadata lookup returns it: a decimal string.
FileSizes == { Dec(Num(n)) : n \in 1..MaxSize }

RangeNumbers == { Num(n) : n \in (0..(MaxSize + 1)) \cup {10 * MaxSize} }

\* The Range headers of the requests: none, empty, bytes=s-e, bytes=s-,
\* bytes=-e, a start that is no number, no range at all, two ranges.
RangeHeaders ==
  { NoHeader, << >> }
  \cup { BytesEq \o Dec(a) \o << "-" >> \o Dec(b) : a \in RangeNumbers, b \in RangeNumbers }
  \cup { BytesEq \o Dec(a) \o << "-" >> : a \in RangeNumbers }
  \cup { BytesEq \o << "-" >> \o Dec(b) : b \in RangeNumbers }
  \cup { BytesEq \o << "x", "-", "1" >>,
         BytesEq,
         BytesEq \o << "0", "-", "0", ",", "1", "-", "1" >> }

\* The position of the quality character of a three-field token.
QualityPosition(token) == Len(SplitDot(token)[1]) + 2

\* Issued tokens with the quality character, or the last signature character,
\* replaced by '-'.
TamperedTokens ==
  UNION { { Edit(t, i, "-") : i \in {QualityPosition(t), Len(t)} } : t \in DOMAIN issued }

\* The :token parameter of a request path: an issued token, a tampered one, or
\* a string that is no token.
PathTokens == (DOMAIN issued) \cup TamperedTokens \cup (Malformed \ {NonString, << >>})

\* The chunks of a file's content.
FileChunks == { << "x" >> }

\* A request is taken when none is in flight.
NoRequest == pc.at \in {"idle", "done", "stalled", "abandoned"}

\* The routes of the stream router in the order of their registration:
\* router.get('/:token.mp4', ...) and then router.head('/:token.mp4', ...).
StreamRoutes ==
  << [method |-> "get", handler |-> "stream"],
     [method |-> "head", handler |-> "head"] >>

\* Express, Route.prototype._handles_method and Route.prototype.dispatch: a
\* route with no handler for HEAD takes a HEAD request with its GET handler.
handlesMethod(route, method) ==
  route.method = method \/ (method = "head" /\ route.method = "get")

\* Express, Router.handle: the first route registered that matches the path
\* and handles the method.
dispatch(routes, method) ==
  LET hits == { i \in 1..Len(routes) : handlesMethod(routes[i], method) }
  IN  routes[CHOOSE i \in hits : \A j \in hits : i <= j].handler

\* res.status(status).end()
statusEnd(r, status) == Commit([r EXCEPT !.statusCode = status, !.ended = TRUE])

\* A request for /stream/:token.mp4 arrives: the handler the router gives it
\* to runs up to its first await.
StreamRequest(method, token) ==
  LET tokenData == decodeToken(tokenCache, token, now).result
      handler   == dispatch(StreamRoutes, method)
      begun     == [Idle EXCEPT !.route = "stream", !.method = method,
                                !.handler = handler]
  IN  /\ NoRequest
      /\ DecodeToken(token)
      /\ UNCHANGED serviceVars
      /\ IF tokenData = Null
         THEN /\ res' = IF handler = "head" THEN statusEnd(NoResponse, 400)
                        ELSE statusJson(NoResponse, 400,
                                        "Invalid or expired stream token", "")
              /\ up' = NoUpstream
              /\ pc' = [begun EXCEPT !.at = "done"]
         ELSE /\ res' = NoResponse
              /\ up' = [NoUpstream EXCEPT !.metadata = TRUE, !.open = TRUE]
              /\ pc' = [begun EXCEPT !.at = "getFileInfo", !.valid = TRUE]

StreamRequests == \E token \in PathTokens : StreamRequest("get", token)

HeadRequests == \E token \in PathTokens : StreamRequest("head", token)

\* driveService.getFileInfo settles: it throws, returns null, or returns the
\* file's metadata; with metadata the handler resolves the range, sets the
\* headers and calls driveService.streamFile.
GetFileInfoThrows ==
  /\ pc.at = "getFileInfo"
  /\ res' = IF pc.handler = "head" THEN statusEnd(res, 500)
            ELSE guardedJson(res, 500, "Failed to stream video", "")
  /\ up' = [up EXCEPT !.open = FALSE]
  /\ pc' = [pc EXCEPT !.at = "done", !.event = "lookup threw"]
  /\ UNCHANGED << codecVars, serviceVars >>

GetFileInfoNull ==
  /\ pc.at = "getFileInfo"
  /\ res' = IF pc.handler = "head" THEN statusEnd(res, 404)
            ELSE statusJson(res, 404, "Video file not found", "")
  /\ up' = [up EXCEPT !.open = FALSE]
  /\ pc' = [pc EXCEPT !.at = "done", !.event = "lookup null"]
  /\ UNCHANGED << codecVars, serviceVars >>

GetFileInfoReturns ==
  \E size \in FileSizes : \E range \in RangeHeaders :
    LET resolved == resolveRange(res, range, size)
    IN  /\ pc.at = "getFileInfo"
        /\ IF pc.handler = "head"
           THEN /\ res' = statusEnd([res EXCEPT !.contentLength = size], 200)
                /\ up' = [up EXCEPT !.open = FALSE]
                /\ pc' = [pc EXCEPT !.at = "done", !.range = range, !.size = size,
                                    !.event = "lookup"]
           ELSE /\ res' = resolved.res
                /\ up' = [up EXCEPT !.stream = TRUE, !.range = resolved.range]
                /\ pc' = [pc EXCEPT !.at = "streamFile", !.range = range,
                                    !.size = size, !.event = "lookup"]
        /\ UNCHANGED << codecVars, serviceVars >>

\* driveService.streamFile settles: it throws, or returns the stream, which the
\* handler pipes into the response.
StreamFileThrows ==
  /\ pc.at = "streamFile"
  /\ res' = guardedJson(res, 500, "Failed to stream video", "")
  /\ up' = [up EXCEPT !.open = FALSE]
  /\ pc' = [pc EXCEPT !.at = "done", !.event = "stream threw"]
  /\ UNCHANGED << codecVars, serviceVars >>

StreamFileReturns ==
  /\ pc.at = "streamFile"
  /\ pc' = [pc EXCEPT !.at = "piping", !.event = "stream"]
  /\ UNCHANGED << codecVars, serviceVars, res, up >>

\* The stream emits a chunk, ends, or emits 'error'.  The body written to the
\* response of a HEAD request is not sent: its first write sends the head.
StreamData ==
  \E chunk \in FileChunks :
    /\ pc.at = "piping"
    /\ pc.chunks < MaxChunks
    /\ res' = IF pc.method = "head"
              THEN (IF res.headersSent THEN res ELSE Commit(res))
              ELSE writeChunk(res, chunk)
    /\ pc' = [pc EXCEPT !.event = "data", !.body = @ \o chunk, !.chunks = @ + 1]
    /\ UNCHANGED << codecVars, serviceVars, up >>

StreamEnd ==
  /\ pc.at = "piping"
  /\ res' = endPipe(res)
  /\ up' = [up EXCEPT !.open = FALSE]
  /\ pc' = [pc EXCEPT !.at = "done", !.event = "end"]
  /\ UNCHANGED << codecVars, serviceVars >>

StreamError ==
  /\ pc.at = "piping"
  /\ res' = guardedJson(res, 500, "Stream error", "")
  /\ up' = [up EXCEPT !.open = FALSE]
  /\ pc' = [pc EXCEPT !.at = IF res.headersSent THEN "stalled" ELSE "done",
                      !.event = "error", !.late = res.headersSent]
  /\ UNCHANGED << codecVars, serviceVars >>

(* ---------------- GET /universal/stream/* (api.js) --------------------- *)

\* The sources proxy URLs are generated for: a playlist, a playlist whose URL
\* carries a query, a media file, and a URL that is neither http nor https.
HlsUrl == Http \o << "o", "/", "h", "l", "s", "/", "i" >>
HlsUrlQuery == HlsUrl \o << "?", "k", "=", "/", "v" >>
Mp4Url == Http \o << "o", "/", "v", ".", "m", "p", "4" >>
FtpUrl == << "f", "t", "p", ":", "/", "/", "o", "/", "v" >>

\* POST /universal/generate: the token of the proxy URL it returns.
universalGenerate(sourceUrl, enableBuffer, enableProxy) ==
  generateUniversalToken(sourceUrl,
                         Options(enableBuffer, enableProxy, detectStreamType(sourceUrl)))

\* The tokens of the URL lines of the playlist the relay delivered last.
MintedTokens ==
  { res.body.lines[i].token : i \in DOMAIN res.body.lines } \ {NoToken}

\* The tokens of the proxy URLs generated: for a playlist with the defaults,
\* for one without buffering, for a media file and for an ftp source.
GeneratedTokens ==
  { universalGenerate(HlsUrl, TRUE, TRUE), universalGenerate(HlsUrlQuery, FALSE, TRUE),
    universalGenerate(Mp4Url, TRUE, TRUE), universalGenerate(FtpUrl, TRUE, TRUE) }

\* The tokens of the requests: no token, the tokens of generated proxy URLs,
\* and the tokens the client read in a playlist.
UniversalTokens == {NoToken} \cup GeneratedTokens \cup MintedTokens

\* The Range headers of the requests on this route.
UniversalRanges == { NoHeader, BytesEq \o << "0", "-", "1" >> }

\* A scheme and a colon lead the string: new URL(sourceUrl) does not throw.
ParsesAsUrl(sourceUrl) ==
  LET k == IndexOf(sourceUrl, ":")
  IN  k >= 1 /\ \A j \in 1..k : sourceUrl[j] \in Letters

\* sourceUrlObj.protocol: the scheme in lower case, with its colon.
protocol(sourceUrl) == toLowerCase(SubSeq(sourceUrl, 1, IndexOf(sourceUrl, ":") + 1))

\* fetchProtocol.get(sourceUrl) does not throw: the protocol is the one of the
\* module chosen, https for 'https:' and http for every other.
Fetchable(sourceUrl) ==
  protocol(sourceUrl) \in { << "h", "t", "t", "p", ":" >>, << "h", "t", "t", "p", "s", ":" >> }

\* The status codes and content types of the origin's responses; "" is a
\* response without a content-type header.
OriginStatuses == {200, 206, 404, 503}
OriginContentTypes ==
  {"", "application/vnd.apple.mpegurl", "application/x-mpegURL", "video/mp4"}

\* contentType.includes('mpegurl')
IncludesMpegurl(contentType) == contentType = "application/vnd.apple.mpegurl"

\* The chunks of an origin's body: lines of a playlist, each with its line
\* feed; a directive that ends in a carriage return, a relative reference, a
\* root-relative one, one into the parent directory, an absolute one, one
\* with the scheme in capitals, a protocol-relative one.
Directive == << "#", "E", CR, LF >>
Relative == << "s", LF >>
RootRelative == << "/", "s", LF >>
ParentRelative == << ".", ".", "/", "s", LF >>
Absolute == Http \o << "c", "/", "s", LF >>
UpperScheme == << "H", "T", "T", "P", ":", "/", "/", "c", "/", "s", LF >>
ProtocolRelative == << "/", "/", "c", "/", "s", LF >>

PlaylistChunks ==
  { Directive, Relative, RootRelative, ParentRelative, Absolute, UpperScheme,
    ProtocolRelative }

\* A content type that announces a playlist; media types are case-insensitive.
IsPlaylistType(contentType) ==
  contentType \in {"application/vnd.apple.mpegurl", "application/x-mpegURL"}

\* The chunks of a media file.
MediaChunks == { << "x" >>, << "y" >> }

\* The chunks of the body of a response: of a playlist if the origin
\* announces one, of a media file otherwise.
OriginChunks(contentType) ==
  IF IsPlaylistType(contentType) THEN PlaylistChunks ELSE MediaChunks

\* GET /universal/stream/<token> arrives: the handler runs to its end, the
\* callbacks of the upstream request run later.
UniversalRequest(token, range) ==
  LET tokenData == decodeUniversalToken(token)
  IN  /\ NoRequest
      /\ IF tokenData = NoTokenData
         THEN /\ res' = statusJson(NoResponse, 400, "Invalid or expired token",
                                   "The stream link is invalid or has expired")
              /\ up' = NoUpstream
              /\ pc' = [Idle EXCEPT !.at = "done", !.route = "universal"]
         ELSE IF ~ ParsesAsUrl(tokenData.sourceUrl) \/ ~ Fetchable(tokenData.sourceUrl)
         THEN /\ res' = guardedJson(NoResponse, 500, "Failed to stream", "<error.message>")
              /\ up' = NoUpstream
              /\ pc' = [Idle EXCEPT !.at = "done", !.route = "universal",
                                    !.valid = TRUE, !.event = "handler threw",
                                    !.data = tokenData]
         ELSE /\ res' = NoResponse
              /\ up' = [NoUpstream EXCEPT !.http = TRUE, !.open = TRUE,
                                          !.range = IF Truthy(range) THEN range
                                                    ELSE NoHeader]
              /\ pc' = [Idle EXCEPT !.at = "connecting", !.route = "universal",
                                    !.type = streamTypeOf(tokenData), !.valid = TRUE,
                                    !.data = tokenData]
      /\ UNCHANGED << codecVars, serviceVars >>

UniversalRequests ==
  \E token \in UniversalTokens : \E range \in UniversalRanges :
    UniversalRequest(token, range)

\* The origin's response head arrives: the handler copies status and headers,
\* then buffers a playlist or pipes the body.
ProxyResponse ==
  \E statusCode \in OriginStatuses : \E header \in OriginContentTypes :
    LET contentType == IF header # "" THEN header
                       ELSE IF pc.type = "HLS" THEN "application/vnd.apple.mpegurl"
                       ELSE "video/mp4"
    IN  /\ pc.at = "connecting"
        /\ res' = [res EXCEPT !.statusCode = statusCode,
                              !.contentLength = Mirrored,
                              !.contentRange = IF statusCode = 206 THEN Mirrored ELSE NoHeader]
        /\ pc' = [pc EXCEPT !.at = IF pc.type = "HLS" /\ IncludesMpegurl(contentType)
                                   THEN "buffering" ELSE "relaying",
                            !.event = "response", !.origin = statusCode,
                            !.contentType = contentType]
        /\ UNCHANGED << codecVars, serviceVars, up >>

\* A chunk of the origin's body arrives: it is added to the buffered playlist,
\* or piped to the client.
ProxyData ==
  \E chunk \in OriginChunks(pc.contentType) :
    /\ pc.at \in {"buffering", "relaying"}
    /\ pc.chunks < MaxChunks
    /\ res' = IF pc.at = "relaying" THEN writeChunk(res, chunk) ELSE res
    /\ pc' = [pc EXCEPT !.event = "data", !.body = @ \o chunk, !.chunks = @ + 1]
    /\ UNCHANGED << codecVars, serviceVars, up >>

\* The origin's body ends: the rewritten playlist is sent, or the pipe ends
\* the response.
ProxyEnd ==
  /\ pc.at \in {"buffering", "relaying"}
  /\ res' = IF pc.at = "buffering"
            THEN send(res, PlaylistBody(rewriteBody(pc.body, pc.data)))
            ELSE endPipe(res)
  /\ up' = [up EXCEPT !.open = FALSE]
  /\ pc' = [pc EXCEPT !.at = "done", !.event = "end"]
  /\ UNCHANGED << codecVars, serviceVars >>

\* proxyRequest emits 'error': the connection failed, broke, or was destroyed
\* by the timeout.
ProxyError ==
  LET r == guardedJson(res, 500, "Stream failed", "Failed to fetch from source")
  IN  /\ pc.at \in {"connecting", "buffering", "relaying", "destroyed"}
      /\ res' = r
      /\ up' = [up EXCEPT !.open = FALSE]
      /\ pc' = [pc EXCEPT !.at = IF r.ended THEN "done" ELSE "stalled",
                          !.event = "error",
                          !.late = IF pc.at = "destroyed" THEN @ ELSE res.headersSent]
      /\ UNCHANGED << codecVars, serviceVars >>

\* The 30 s timeout of proxyRequest fires: the request is destroyed.  A client
\* that is gone gets nothing written.
ProxyTimeout ==
  LET r == IF pc.at = "abandoned" THEN res
           ELSE guardedJson(res, 504, "Stream timeout",
                            "The source took too long to respond")
  IN  /\ pc.route = "universal"
      /\ pc.at \in {"connecting", "buffering", "relaying", "abandoned"}
      /\ up.open
      /\ up' = [up EXCEPT !.destroyed = TRUE, !.open = FALSE]
      /\ res' = r
      /\ pc' = [pc EXCEPT !.at = IF pc.at = "abandoned" THEN "abandoned"
                                 ELSE IF pc.at = "connecting" THEN "destroyed"
                                 ELSE IF r.ended THEN "done" ELSE "stalled",
                          !.event = "timeout", !.late = res.headersSent]
      /\ UNCHANGED << codecVars, serviceVars >>

(* --------------------------- the client leaves ------------------------- *)

\* The client closes its connection while a stream is piped into its
\* response.  Neither route listens for it: no handler of the request runs.
ClientClose ==
  /\ pc.at \in {"piping", "relaying"}
  /\ pc' = [pc EXCEPT !.at = "abandoned"]
  /\ UNCHANGED << codecVars, serviceVars, res, up >>

(* --------------- the requests on /analyze and /generate-link ----------- *)

\* The driveUrl values of the request bodies: none, two link formats with the
\* id 'a', and a link with no id in it.
DriveUrls ==
  { NoField,
    << "/", "f", "i", "l", "e", "/", "d", "/", "a", "/", "v" >>,
    << "/", "u", "c", "?", "i", "d", "=", "a" >>,
    << "/", "d", "/" >> }

\* The fileId values of the request bodies.
ProvidedIds == { NoField, << "a" >> }

\* The quality values of the request bodies: none, recognized ones, and one
\* that is no option.
Qualities == { "", "original", "720p", "1080p", "4k" }

\* The metadata the lookup returns: videos of several dimensions, sizes and
\* durations, with fields left out; a file that is no video; a file without
\* mime type.
Dimensions ==
  { << Absent, Absent >> }
  \cup { << Dec(Num(d[1])), Dec(Num(d[2])) >> :
           d \in { << 640, 360 >>, << 1279, 719 >>, << 1280, 720 >>, << 1920, 1080 >>,
                   << 1080, 1920 >>, << 3840, 2160 >> } }
Sizes == { Absent, Dec(Num(1000)), Dec(Num(2000)) }
Durations == { Absent, Dec(Num(0)), Dec(Num(1)), Dec(Num(3)) }
Mp4 == << "v", "i", "d", "e", "o", "/", "m", "p", "4" >>
VideoInfos ==
  { FileInfo(size, Mp4, d[1], d[2], duration) :
      size \in Sizes, d \in Dimensions, duration \in Durations }
FileInfos ==
  VideoInfos
  \cup { FileInfo(Dec(Num(1000)), << "t", "e", "x", "t", "/", "x" >>, Absent, Absent, Absent),
         FileInfo(Dec(Num(1000)), NoMimeType, Absent, Absent, Absent) }

NoApiRequest == api.at \in {"idle", "done"}

\* What the catch block of the route sends.
Failed(route) ==
  IF route = "analyze" THEN "Failed to analyze video" ELSE "Failed to generate stream link"

\* POST /analyze arrives: the handler runs up to its await.
AnalyzeRequest ==
  \E driveUrl \in DriveUrls :
    LET fileId == extractFileId(driveUrl)
        begun  == [NoApi EXCEPT !.route = "analyze"]
    IN  /\ NoApiRequest
        /\ api' =
             IF ~ Given(driveUrl)
             THEN [begun EXCEPT !.at = "done",
                     !.res = statusJson(NoResponse, 400, "Missing driveUrl parameter", "")]
             ELSE IF ~ Given(fileId)
             THEN [begun EXCEPT !.at = "done",
                     !.res = statusJson(NoResponse, 400, "Invalid Google Drive URL", "")]
             ELSE [begun EXCEPT !.at = "getFileInfo", !.fileId = fileId]
        /\ UNCHANGED << codecVars, relayVars, fileInfoCache, drive, ext >>

\* POST /generate-link arrives: the handler runs up to its await.
LinkRequest ==
  \E driveUrl \in DriveUrls : \E providedFileId \in ProvidedIds :
    \E quality \in Qualities : \E quick \in BOOLEAN :
      LET fileId == IF Given(providedFileId) THEN providedFileId
                    ELSE extractFileId(driveUrl)
          begun  == [NoApi EXCEPT !.route = "generate-link"]
      IN  /\ NoApiRequest
          /\ api' =
               IF ~ Given(providedFileId) /\ ~ Given(driveUrl)
               THEN [begun EXCEPT !.at = "done",
                       !.res = statusJson(NoResponse, 400,
                                          "Missing driveUrl or fileId parameter", "")]
               ELSE IF ~ Given(fileId)
               THEN [begun EXCEPT !.at = "done",
                       !.res = statusJson(NoResponse, 400, "Invalid Google Drive URL", "")]
               ELSE [begun EXCEPT !.at = "getFileInfo", !.fileId = fileId,
                                  !.quality = quality, !.quick = quick]
          /\ UNCHANGED << codecVars, relayVars, fileInfoCache, drive, ext >>

\* driveService.getFileInfo settles on either route: it throws, or returns
\* null, or returns the metadata of a file that is no video.
LookupThrows ==
  /\ api.at = "getFileInfo"
  /\ api' = [api EXCEPT !.at = "done",
               !.res = statusJson(api.res, 500, Failed(api.route), "<error.message>")]
  /\ UNCHANGED << codecVars, relayVars, fileInfoCache, drive, ext >>

LookupNull ==
  /\ api.at = "getFileInfo"
  /\ api' = [api EXCEPT !.at = "done",
               !.res = statusJson(api.res, 404, "File not found", "")]
  /\ UNCHANGED << codecVars, relayVars, fileInfoCache, drive, ext >>

LookupNotVideo ==
  \E fileInfo \in FileInfos :
    /\ api.at = "getFileInfo"
    /\ ~ isVideo(fileInfo.mimeType)
    /\ api' = [api EXCEPT !.at = "done", !.info = fileInfo,
                 !.res = statusJson(api.res, 400, "Not a video file", "")]
    /\ UNCHANGED << codecVars, relayVars, fileInfoCache, drive, ext >>

\* It returns a video on /analyze: the analysis is sent.
AnalyzeReturns ==
  \E fileInfo \in FileInfos :
    /\ api.at = "getFileInfo"
    /\ api.route = "analyze"
    /\ isVideo(fileInfo.mimeType)
    /\ api' = [api EXCEPT !.at = "done", !.info = fileInfo,
                 !.qualityInfo = analyzeVideoQuality(fileInfo),
                 !.res = sendData(api.res)]
    /\ UNCHANGED << codecVars, relayVars, fileInfoCache, drive, ext >>

\* It returns a video on /generate-link: the token is generated and the link
\* is sent, in quick mode with the quality asked for, in full mode with the
\* analysis and the option selected from it.
LinkReturns ==
  \E fileInfo \in FileInfos :
    LET selectedQuality == selectedQualityOf(api.quality)
        token           == generateToken(tokenCache, api.fileId, selectedQuality, now).token
        qualityInfo     == analyzeVideoQuality(fileInfo)
    IN  /\ api.at = "getFileInfo"
        /\ api.route = "generate-link"
        /\ isVideo(fileInfo.mimeType)
        /\ GenerateToken(api.fileId, selectedQuality)
        /\ api' = [api EXCEPT
                     !.at = "done", !.info = fileInfo, !.minted = TRUE,
                     !.streamToken = token,
                     !.selectedQuality =
                        IF api.quick THEN selectedQuality
                        ELSE selectedOption(qualityInfo.qualityOptions, selectedQuality).id,
                     !.qualityInfo = IF api.quick THEN NoQualityInfo ELSE qualityInfo,
                     !.res = sendData(api.res)]
        /\ UNCHANGED << fileInfoCache, drive, ext >>

(* ------------------ driveService.getFileInfo and its cache ------------- *)

\* The calls of drive.files.get awaited.
RECURSIVE PendingOver(_)
PendingOver(ids) ==
  IF ids = {} THEN 0
  ELSE LET f == CHOOSE x \in ids : TRUE
       IN  drive.pending[f] + PendingOver(ids \ {f})
PendingLookups == PendingOver(LookupIds)

LastStep(op, fileId, hit, age, swept) ==
  [ op |-> op, fileId |-> fileId, hit |-> hit, age |-> age, swept |-> swept,
    flip |-> ~ drive.last.flip ]

\* getFileInfo(fileId) up to its return from the cache or its await of
\* drive.files.get.
GetFileInfoCall ==
  \E fileId \in LookupIds :
    LET cached == getCachedFileInfo(fileInfoCache, fileId, drive.now)
        hit    == cached.data # ""
        age    == IF fileId \in DOMAIN fileInfoCache
                  THEN drive.now - fileInfoCache[fileId].timestamp ELSE -1
    IN  /\ hit \/ PendingLookups < MaxLookups
        /\ fileInfoCache' = cached.cache
        /\ drive' = [drive EXCEPT
                       !.pending[fileId] = IF hit THEN @ ELSE @ + 1,
                       !.last = LastStep("get", fileId, hit, age, 0)]
        /\ UNCHANGED << codecVars, relayVars, api, ext >>

\* drive.files.get returns the metadata: it is cached and returned.
FilesGetReturns ==
  \E fileId \in LookupIds :
    LET set == setCachedFileInfo(fileInfoCache, fileId, "info", drive.now)
    IN  /\ drive.pending[fileId] > 0
        /\ fileInfoCache' = set
        /\ drive' = [drive EXCEPT
                       !.pending[fileId] = @ - 1,
                       !.last = LastStep("set", fileId, FALSE, -1,
                                  Cardinality((DOMAIN fileInfoCache) \cup {fileId})
                                    - Cardinality(DOMAIN set))]
        /\ UNCHANGED << codecVars, relayVars, api, ext >>

\* drive.files.get fails: with code 404 getFileInfo returns null, with
\* anything else it throws.
FilesGetFails ==
  \E fileId \in LookupIds : \E op \in {"null", "throw"} :
    /\ drive.pending[fileId] > 0
    /\ drive' = [drive EXCEPT
                   !.pending[fileId] = @ - 1,
                   !.last = LastStep(op, fileId, FALSE, -1, 0)]
    /\ UNCHANGED << codecVars, relayVars, api, fileInfoCache, ext >>

\* The metadata clock advances.
InfoTick ==
  /\ drive.now < MaxInfoTicks
  /\ drive' = [drive EXCEPT !.now = @ + 1]
  /\ UNCHANGED << codecVars, relayVars, api, fileInfoCache, ext >>

(* --------------------- the extension's message handlers ---------------- *)

\* The domains messages name.
DomainInputs ==
  { << "a" >>, Https \o << "a", "/", "x" >>, << "b" >> }

\* ADD_STREAM_DOMAIN arrives: addStreamDomain up to its first await.
\* updateDynamicRules installs the rule unless its id is already installed.
AddStreamDomain ==
  \E domain \in DomainInputs :
    LET clean  == cleanDomain(domain)
        ruleId == ext.ruleIdCounter
        fresh  == ruleId \notin ruleIds(ext.dynamicRules)
    IN  /\ Len(ext.tasks) < MaxTasks
        /\ ext.ruleIdCounter <= MaxRuleId
        /\ ext' =
             IF clean \in DOMAIN ext.activeRules
             THEN [ext EXCEPT !.last = Reply("add", clean, TRUE, "Domain already active")]
             ELSE [ext EXCEPT
                     !.ruleIdCounter = @ + 1,
                     !.dynamicRules =
                        IF fresh THEN @ \cup { [id |-> ruleId, domain |-> clean] }
                        ELSE @,
                     !.tasks = Append(@, Task("add", clean, ruleId, "update",
                                              fresh, NoRules))]
        /\ UNCHANGED << codecVars, relayVars, api, fileInfoCache, drive >>

\* updateDynamicRules returns to addStreamDomain: the rule is recorded and
\* saveActiveRules() called, or the error is caught and reported.
AddRulesUpdated ==
  \E i \in 1..Len(ext.tasks) :
    LET task  == ext.tasks[i]
        rules == mapSet(ext.activeRules, task.domain, task.ruleId)
    IN  /\ task.op = "add" /\ task.at = "update"
        /\ returns(ext.tasks, i)
        /\ ext' =
             IF task.ok
             THEN [ext EXCEPT !.activeRules = rules,
                              !.storage = rules,
                              !.tasks = recalled(@, i, [task EXCEPT !.at = "save"])]
             ELSE [ext EXCEPT !.tasks = without(@, i),
                              !.last = Reply("add", task.domain, FALSE, "error.message")]
        /\ UNCHANGED << codecVars, relayVars, api, fileInfoCache, drive >>

\* saveActiveRules() returns to addStreamDomain.
AddRulesSaved ==
  \E i \in 1..Len(ext.tasks) :
    LET task == ext.tasks[i]
    IN  /\ task.op = "add" /\ task.at = "save"
        /\ returns(ext.tasks, i)
        /\ ext' = [ext EXCEPT !.tasks = without(@, i),
                              !.last = Reply("add", task.domain, TRUE, "Enabled")]
        /\ UNCHANGED << codecVars, relayVars, api, fileInfoCache, drive >>

\* REMOVE_STREAM_DOMAIN arrives: removeStreamDomain up to its first await.
RemoveStreamDomain ==
  \E domain \in DomainInputs :
    LET clean == cleanDomain(domain)
    IN  /\ Len(ext.tasks) < MaxTasks
        /\ ext' =
             IF clean \in DOMAIN ext.activeRules
             THEN LET ruleId == ext.activeRules[clean]
                  IN  [ext EXCEPT
                         !.dynamicRules = { rule \in @ : rule.id # ruleId },
                         !.tasks = Append(@, Task("remove", clean, ruleId, "update",
                                                  TRUE, NoRules))]
             ELSE [ext EXCEPT !.last = Reply("remove", clean, TRUE, "")]
        /\ UNCHANGED << codecVars, relayVars, api, fileInfoCache, drive >>

\* updateDynamicRules returns to removeStreamDomain.
RemoveRulesUpdated ==
  \E i \in 1..Len(ext.tasks) :
    LET task  == ext.tasks[i]
        rules == mapDelete(ext.activeRules, task.domain)
    IN  /\ task.op = "remove" /\ task.at = "update"
        /\ returns(ext.tasks, i)
        /\ ext' = [ext EXCEPT !.activeRules = rules,
                              !.storage = rules,
                              !.tasks = recalled(@, i, [task EXCEPT !.at = "save"])]
        /\ UNCHANGED << codecVars, relayVars, api, fileInfoCache, drive >>

\* saveActiveRules() returns to removeStreamDomain.
RemoveRulesSaved ==
  \E i \in 1..Len(ext.tasks) :
    LET task == ext.tasks[i]
    IN  /\ task.op = "remove" /\ task.at = "save"
        /\ returns(ext.tasks, i)
        /\ ext' = [ext EXCEPT !.tasks = without(@, i),
                              !.last = Reply("remove", task.domain, TRUE, "")]
        /\ UNCHANGED << codecVars, relayVars, api, fileInfoCache, drive >>

\* chrome.storage.local.get returns to loadActiveRules.
LoadActiveRules ==
  \E i \in 1..Len(ext.tasks) :
    LET task == ext.tasks[i]
    IN  /\ task.op = "load"
        /\ returns(ext.tasks, i)
        /\ ext' = [ext EXCEPT
                     !.activeRules = loadedRules(@, task.stored),
                     !.ruleIdCounter = loadedCounter(@, task.stored, DOMAIN task.stored),
                     !.tasks = without(@, i)]
        /\ UNCHANGED << codecVars, relayVars, api, fileInfoCache, drive >>

\* The browser stops the idle worker and starts it again for the next event:
\* the script runs from its top.
WorkerRestart ==
  /\ ext.tasks = << >>
  /\ ext' = WorkerStart(ext.dynamicRules, ext.storage)
  /\ UNCHANGED << codecVars, relayVars, api, fileInfoCache, drive >>

(* ---------------------------- specifications --------------------------- *)

\* One token is issued before the requests of a run.
RelayGenerate ==
  /\ DOMAIN issued = {}
  /\ pc = Idle
  /\ GenerateAny

\* The requests on the universal route read nothing of the codec: they are
\* taken in the runs that make no call of it, here with the tokens of
\* generated proxy URLs.
RelayUniversal ==
  /\ last = NoCall("start")
  /\ \E token \in {NoToken} \cup GeneratedTokens : \E range \in UniversalRanges :
       UniversalRequest(token, range)

\* No call is made for the rest of the hours of the run.
Sleep ==
  /\ now < EndTick
  /\ pc = Idle
  /\ now' = EndTick
  /\ last' = NoCall("tick")
  /\ UNCHANGED << tokenCache, issued, expiredTokens >>
  /\ UNCHANGED << relayVars, serviceVars >>

\* Tokens over their lifetime: issued tokens decoded over MaxHours hours.
Next == Generate \/ DecodeIssued \/ Tick \/ Restart

Spec == Init /\ [][Next]_vars

\* Tampering: issued tokens, edited tokens and malformed inputs decoded at the
\* first clock reading of a run.
EditNext == GenerateAny \/ DecodeIssued \/ DecodeEdited \/ DecodeMalformed

EditSpec == Init /\ [][EditNext]_vars

\* Streaming: requests on the two stream routes, one at a time, with a token
\* issued before, fresh or expired, tampered or malformed.
RelayNext ==
  \/ RelayGenerate
  \/ Sleep
  \/ StreamRequests
  \/ GetFileInfoThrows
  \/ GetFileInfoNull
  \/ GetFileInfoReturns
  \/ StreamFileThrows
  \/ StreamFileReturns
  \/ StreamData
  \/ StreamEnd
  \/ StreamError
  \/ RelayUniversal
  \/ ProxyResponse
  \/ ProxyData
  \/ ProxyEnd
  \/ ProxyError
  \/ ProxyTimeout
  \/ ClientClose

RelaySpec == Init /\ [][RelayNext]_vars

\* The same with the timer of the universal route running: once set, the 30 s
\* timeout fires unless the request has ended before.  Nothing is assumed of
\* what the upstream does.
RelayFairSpec == RelaySpec /\ WF_vars(ProxyTimeout)

\* Playlists: requests on the universal route alone, one at a time, with the
\* tokens of generated proxy URLs and the tokens read in the playlists the
\* relay delivered.
ProxyNext ==
  \/ UniversalRequests
  \/ ProxyResponse
  \/ ProxyData
  \/ ProxyEnd
  \/ ProxyError
  \/ ProxyTimeout
  \/ ClientClose

ProxySpec == Init /\ [][ProxyNext]_vars

\* Links: requests on /analyze and /generate-link, one at a time.
LinkNext ==
  \/ AnalyzeRequest
  \/ LinkRequest
  \/ LookupThrows
  \/ LookupNull
  \/ LookupNotVideo
  \/ AnalyzeReturns
  \/ LinkReturns

LinkSpec == Init /\ [][LinkNext]_vars

\* Retries: requests on the Drive stream route with an issued token, over the
\* lifetime of the token, each ended by a lookup that finds no file.
RetryRequests == \E token \in DOMAIN issued : StreamRequest("get", token)

RetryNext ==
  \/ Generate
  \/ Tick
  \/ RetryRequests
  \/ GetFileInfoNull

RetrySpec == Init /\ [][RetryNext]_vars

\* Metadata: calls of getFileInfo, overlapping, over MaxInfoTicks ticks.
CacheNext ==
  \/ GetFileInfoCall
  \/ FilesGetReturns
  \/ FilesGetFails
  \/ InfoTick

CacheSpec == Init /\ [][CacheNext]_vars

\* HEAD: HEAD requests for /stream/:token.mp4, one at a time, with a token
\* issued before, tampered or malformed.
HeadNext ==
  \/ RelayGenerate
  \/ HeadRequests
  \/ GetFileInfoThrows
  \/ GetFileInfoNull
  \/ GetFileInfoReturns
  \/ StreamFileThrows
  \/ StreamFileReturns
  \/ StreamData
  \/ StreamEnd
  \/ StreamError

HeadSpec == Init /\ [][HeadNext]_vars

\* EXTENSION: the background worker of the browser extension, its messages
\* overlapping each other and the load at start.
ExtNext ==
  \/ AddStreamDomain
  \/ AddRulesUpdated
  \/ AddRulesSaved
  \/ RemoveStreamDomain
  \/ RemoveRulesUpdated
  \/ RemoveRulesSaved
  \/ LoadActiveRules
  \/ WorkerRestart

ExtSpec == Init /\ [][ExtNext]_vars

(* ------------------------------ the claims ----------------------------- *)

\* The state right after a decodeToken call, and after one that returned a payload.
Decoded == last.op = "decodeToken"
Accepted == Decoded /\ last.result # Null

\* Math.floor(Date.now() / 3600000)
CurrentHours == now \div HourMs

\* What decodeToken returns for the last token, at the same instant, from an
\* empty cache.
Stateless == decodeToken(EmptyCache, last.token, now).result

Recognized(quality) == quality \in {"original", "1080p", "720p", "480p", "360p"}

DotFree(fileId) == \A i \in 1..Len(fileId) : fileId[i] # "."

\* The pair the last token was issued for.
IssuedPair == [fileId |-> issued[last.token].fileId, quality |-> issued[last.token].quality]

C2_InvalidAfterExpiry ==
  ( /\ Decoded
    /\ last.token \in DOMAIN issued
    /\ CurrentHours > issued[last.token].expiryHours )
  => last.result = Null

\* C3: whenever decodeToken returns a payload for a token string, the stateless
\* verification of the same string at the same instant (empty cache) accepts it
\* too.
C3_CacheNeverDecides == Accepted => Stateless # Null

\* C4: for every token generateToken returned, decodeToken with an empty cache
\* returns the same result as decodeToken with the cache as it is.
C4_CacheClearChangesNothing ==
  (Decoded /\ last.token \in DOMAIN issued) => last.result = Stateless

\* The token differs from an issued token in exactly one character, at one of
\* the given positions of the issued token.
EditedAt(token, t, positions) ==
  /\ Len(token) = Len(t)
  /\ \E i \in positions :
       /\ token[i] # t[i]
       /\ \A j \in (1..Len(t)) \ {i} : token[j] = t[j]

IsSigEdit(token) == \E t \in DOMAIN issued : EditedAt(token, t, SigPositions(t))

IsEdit(token) == \E t \in DOMAIN issued : EditedAt(token, t, 1..Len(t))

\* C5: an issued token with one character of its signature segment replaced by
\* a different character is rejected by decodeToken.
C5_SignatureEditRejected == (Decoded /\ IsSigEdit(last.token)) => last.result = Null

\* decodeToken has compared the edited signature with the recomputed one and
\* rejected the token.
C5_Witness ==
  /\ Decoded
  /\ IsSigEdit(last.token)
  /\ last.why = "signature"
  /\ last.result = Null

\* C6: an issued token with any one character replaced by a different one
\* (resource reference, quality character, expiry digits or signature) is
\* rejected by decodeToken.
C6_AnyEditRejected == (Decoded /\ IsEdit(last.token)) => last.result = Null

\* C7: decodeToken never accepts a token more than 24 hours (tokenExpiry) after
\* the generateToken call that issued it.
C7_ExpiresAfter24Hours ==
  (Accepted /\ last.token \in DOMAIN issued)
  => now - issued[last.token].at <= tokenExpiry

HasDefect(token) ==
  \/ token = NonString
  \/ Len(SplitDot(token)) # 3
  \/ LET parts  == SplitDot(token)
         expiry == SubSeq(parts[2], 2, Len(parts[2]))
         hours  == base62ToNum(expiry)
     IN  \/ expiry = << >>
         \/ \E i \in 1..Len(expiry) : IndexOf(base62Chars, expiry[i]) = -1
         \/ hours < CurrentHours
         \/ parts[3] # sha256Hex6(parts[1],
                                  decompressQuality(IF parts[2] = << >> THEN Undefined
                                                    ELSE parts[2][1]),
                                  hours)

\* C9: decodeToken never throws; for every input with a defect it returns
\* Invalid and leaves the cache without an entry for that input.
C9_DefectiveInputRejected ==
  Decoded =>
    /\ last.why # "threw"
    /\ HasDefect(last.token) =>
         (last.result = Null /\ last.token \notin DOMAIN tokenCache)

\* C10: verifying a token that was issued with an unrecognized option returns
\* the option "original" for the same resourceRef.
C10_UnrecognizedIsOriginal ==
  ( /\ Decoded
    /\ last.token \in DOMAIN issued
    /\ ~ Recognized(IssuedPair.quality)
    /\ CurrentHours <= issued[last.token].expiryHours )
  => last.result = [fileId |-> IssuedPair.fileId, quality |-> "original"]

\* C11: token issuance is deterministic.  Any two generateToken calls of a run
\* with the same (resourceRef, option) that computed the same expiry hour
\* returned the same token string (signature included), whatever the clock
\* reading within the hour, the cache contents and the calls in between; and
\* the token a call has returned is the one it returns from an empty cache.
C11_Deterministic ==
  /\ \A t1 \in DOMAIN issued : \A t2 \in DOMAIN issued :
       ( /\ issued[t1].fileId = issued[t2].fileId
         /\ issued[t1].quality = issued[t2].quality
         /\ issued[t1].expiryHours = issued[t2].expiryHours ) => t1 = t2
  /\ last.op = "generateToken"
       => last.token = generateToken(EmptyCache, issued[last.token].fileId,
                                     issued[last.token].quality, now).token

\* generateToken has returned, at a later clock reading of the same hour, the
\* token string an earlier call returned.
C11_Witness ==
  /\ last.op = "generateToken"
  /\ last.again
  /\ issued[last.token].at = now
  /\ now % TicksPerHour # 0

\* The last call was made by the handler of the stream route for the request
\* whose response res is; last.token is the :token of its path.
StreamRouteDecoded == pc.route = "stream" /\ Decoded

\* The :token of the request is no valid token: a string this service never
\* issued (malformed or tampered), or an issued token past its expiry hour.
PathTokenInvalid ==
  \/ last.token \notin DOMAIN issued
  \/ CurrentHours > issued[last.token].expiryHours

\* C12: fail fast.  A request on a stream route (GET /stream/{token}.mp4, GET
\* /universal/stream/{token}) whose token is invalid is answered 400, and no
\* upstream call (metadata lookup, content stream, outbound HTTP request) is
\* issued for it.
C12_FailFast ==
  /\ (StreamRouteDecoded /\ PathTokenInvalid)
       => (res.headersSent /\ res.statusCode = 400 /\ up = NoUpstream)
  /\ (pc.route = "universal" /\ ~ pc.valid)
       => (res.headersSent /\ res.statusCode = 400 /\ up = NoUpstream)

\* C13: a malformed, a tampered and an expired token get the same response on
\* a stream route: status 400 and the route's one 'invalid or expired' body.
C13_OneTokenError ==
  /\ (StreamRouteDecoded /\ PathTokenInvalid)
       => res = statusJson(NoResponse, 400, "Invalid or expired stream token", "")
  /\ (pc.route = "universal" /\ ~ pc.valid)
       => res = statusJson(NoResponse, 400, "Invalid or expired token",
                           "The stream link is invalid or has expired")

\* The stream route has read the file size and resolved the range, and no
\* error response has replaced the content response.
RangeResolved == pc.route = "stream" /\ pc.size # << >> /\ res.body.kind # "json"

\* C14: without a Range header the stream route answers with the full content:
\* status 200, Content-Length equal to the file size, no Content-Range, and the
\* whole content (no range) asked of the content stream.
C14_FullContent ==
  (RangeResolved /\ pc.range = NoHeader)
  => /\ res.statusCode = 200
     /\ res.contentLength = pc.size
     /\ res.contentRange = NoHeader
     /\ up.stream /\ up.range = NoHeader

\* A full-content response has been sent to its end for the largest file.
C14_Witness ==
  /\ RangeResolved
  /\ pc.range = NoHeader
  /\ pc.size = Dec(Num(MaxSize))
  /\ res.headersSent /\ res.ended /\ res.body.kind = "bytes"

\* The partial response the resolver owes for the window start..end of a file
\* of totalSize bytes.
IsPartial(start, end, totalSize) ==
  /\ res.statusCode = 206
  /\ res.contentRange = << "b", "y", "t", "e", "s", " " >> \o DecNat(start) \o << "-" >>
                          \o DecNat(end) \o << "/" >> \o DecNat(totalSize)
  /\ res.contentLength = DecNat(end - start + 1)

\* C15: for a Range header 'bytes=start-end' with 0 <= start <= end < totalSize,
\* and for 'bytes=start-' with 0 <= start < totalSize, where the end defaults
\* to totalSize-1, the stream route answers 206 with Content-Range
\* 'bytes start-end/totalSize' and Content-Length end-start+1.
C15_PartialContent ==
  \A totalSize \in 1..MaxSize : \A start \in 0..(totalSize - 1) :
    (RangeResolved /\ pc.size = DecNat(totalSize))
    => /\ \A end \in start..(totalSize - 1) :
            pc.range = BytesEq \o DecNat(start) \o << "-" >> \o DecNat(end)
            => IsPartial(start, end, totalSize)
       /\ pc.range = BytesEq \o DecNat(start) \o << "-" >>
            => IsPartial(start, totalSize - 1, totalSize)

\* 'bytes=1-' on a file of two bytes has been answered and the head sent.
C15_Witness ==
  /\ RangeResolved
  /\ pc.size = << "2" >>
  /\ pc.range = BytesEq \o << "1", "-" >>
  /\ res.headersSent /\ res.body.kind = "bytes"
  /\ res.contentLength = << "1" >>

\* The Range header of the request names a start beyond the size of the file.
StartBeyondSize ==
  \E totalSize \in 1..MaxSize : \E a \in RangeNumbers :
    /\ pc.size = DecNat(totalSize)
    /\ a.v > totalSize
    /\ \/ pc.range = BytesEq \o Dec(a) \o << "-" >>
       \/ \E b \in RangeNumbers : pc.range = BytesEq \o Dec(a) \o << "-" >> \o Dec(b)

\* C16: a Range header whose start lies beyond the file size is rejected with
\* a range error (416): it is never answered 206 and no content stream is
\* opened for it.
C16_StartBeyondRejected ==
  (pc.route = "stream" /\ StartBeyondSize)
  => (res.statusCode = 416 /\ res.headersSent /\ ~ up.stream)

\* C17: every partial (206) response the stream route sends has
\* 0 <= start <= end < totalSize in its Content-Range and end-start+1 as its
\* Content-Length.
C17_PartialInBounds ==
  (RangeResolved /\ res.headersSent /\ res.statusCode = 206)
  => \E totalSize \in 1..MaxSize : \E start \in 0..(totalSize - 1) :
       \E end \in start..(totalSize - 1) :
         pc.size = DecNat(totalSize) /\ IsPartial(start, end, totalSize)

\* C18: a response fails once at most.  Whatever upstream response, error,
\* timeout and exception events a request meets, one response head at most goes
\* to the client, and no handler writes an error response after the head is out.
C18_FailsOnce == res.heads <= 1 /\ ~ res.lateWrite

\* After bytes went to the client, the stream has emitted 'error' (or the
\* timeout has fired) and the handler has left the response as it was.
C18_Witness ==
  /\ pc.at = "stalled"
  /\ pc.event \in {"error", "timeout"}
  /\ res.heads = 1
  /\ res.body.kind = "bytes"

\* The upstream failed before a byte went to the client: the connection broke
\* ('error' on the request or the stream), or opening the stream threw.
FailedBeforeBytes ==
  /\ pc.event \in {"error", "stream threw"}
  /\ ~ up.destroyed
  /\ res.body.kind # "bytes"

\* C19: an upstream connection failure before any byte was sent gives the
\* client status 502 with a structured error body.
C19_ConnectionFailureIs502 ==
  FailedBeforeBytes => (res.statusCode = 502 /\ res.body.kind = "json")

\* C20: a status outside 2xx that the origin returns before any byte was sent
\* reaches the client as 502.
C20_OriginErrorIs502 ==
  (pc.origin # 0 /\ pc.origin \notin 200..299 /\ res.headersSent)
  => res.statusCode = 502

\* A request whose upstream timeout has fired while its client was there.
TimedOut == pc.event = "timeout" /\ pc.at # "abandoned"

\* C21: when the upstream request exceeds its timeout it is torn down; the
\* client gets a 504 if and only if no response was committed before, and
\* otherwise its connection is ended with no further status written.
C21_TimeoutTearsDown ==
  TimedOut =>
    /\ up.destroyed
    /\ (res.statusCode = 504 /\ res.body.kind = "json") <=> ~ pc.late
    /\ pc.late => (res.ended /\ ~ res.lateWrite /\ res.heads = 1)

\* An upstream failure handled after the head, and so the first bytes, of the
\* response went out.
MidStreamFailure == pc.event = "error" /\ pc.late

\* C22: if the upstream drops after body bytes were sent, the relay ends the
\* client's connection, and writes no JSON error into the started response.
C22_MidStreamAborts ==
  MidStreamFailure =>
    (res.ended /\ ~ res.lateWrite /\ res.body.kind # "json")

\* C23: if the client disconnects while a relay is streaming, the upstream
\* request of that relay is aborted: none stays open for a client that is gone.
C23_ClientGoneAborts == (pc.at = "abandoned") => ~ up.open

\* The positions of a request that is pending, connecting or forwarding, and
\* the ones of a request that is over: completed, failed or timed out with its
\* response ended, or given up by its client.
InFlight ==
  pc.at \in {"getFileInfo", "streamFile", "piping", "connecting", "buffering", "relaying"}
Terminal == pc.at \in {"done", "destroyed", "abandoned"}

\* C24: every relay request eventually reaches a terminal state (completed,
\* failed or timed out), also when the upstream accepts the connection and
\* then sends nothing, or stalls in the body.
C24_ReachesTerminal == [](InFlight => <>Terminal)

\* The origin's response is not announced as a playlist, and nothing has
\* failed: the head, chunks or the end of the body have been handled.
MediaRelayed ==
  /\ pc.route = "universal"
  /\ pc.origin # 0
  /\ ~ IsPlaylistType(pc.contentType)
  /\ pc.event \in {"response", "data", "end"}
  /\ pc.at \in {"relaying", "done"}

PlaylistSent == pc.route = "universal" /\ res.body.kind = "playlist"
InputLines == Split(pc.body, LF)

\* A line that starts with '#', and a line with nothing on it.
IsDirective(rawLine) == startsWith(rawLine, << "#" >>)
IsBlank(rawLine) == rawLine = << >>

\* C26: the rewritten playlist has as many lines as the input, in the same
\* order, and every directive line and every blank line is passed through
\* byte for byte, with the white space and the carriage return it carries.
C26_StructurePreserved ==
  PlaylistSent =>
    /\ Len(res.body.lines) = Len(InputLines)
    /\ \A i \in 1..Len(InputLines) :
         (IsDirective(InputLines[i]) \/ IsBlank(InputLines[i]))
           => res.body.lines[i] = TextLine(InputLines[i])

(* Reference resolution as RFC 3986 section 5.2 defines it, for the URLs and
   the references of the playlists above: what a URL line stands for. *)

SchemeChars == Letters \cup { Digits[i] : i \in 1..10 } \cup {"+", "-", "."}

\* The reference starts with a scheme and a colon.
HasScheme(ref) ==
  LET k == IndexOf(ref, ":")
  IN  k >= 1 /\ ref[1] \in Letters /\ \A j \in 1..k : ref[j] \in SchemeChars

\* The first position of str that holds a character of chars; Len(str) + 1 if
\* none does.
RECURSIVE FirstOf(_, _, _)
FirstOf(str, chars, i) ==
  IF i > Len(str) \/ str[i] \in chars THEN i ELSE FirstOf(str, chars, i + 1)

\* scheme://authority path ?query
UrlParts(url) ==
  LET k     == IndexOf(url, ":")
      rest  == SubSeq(url, k + 4, Len(url))
      a     == FirstOf(rest, {"/", "?"}, 1)
      pathq == SubSeq(rest, a, Len(rest))
      q     == FirstOf(pathq, {"?"}, 1)
  IN  [ scheme    |-> SubSeq(url, 1, k),
        authority |-> SubSeq(rest, 1, a - 1),
        path      |-> SubSeq(pathq, 1, q - 1),
        query     |-> SubSeq(pathq, q, Len(pathq)) ]

RECURSIVE Join(_, _)
Join(segments, char) ==
  IF Len(segments) = 0 THEN << >>
  ELSE IF Len(segments) = 1 THEN segments[1]
  ELSE segments[1] \o << char >> \o Join(Tail(segments), char)

\* The segments of a path with "." dropped and ".." taking the segment before
\* it, the root apart.
RECURSIVE DotFold(_, _, _)
DotFold(segments, i, out) ==
  IF i > Len(segments) THEN out
  ELSE IF segments[i] = << "." >> THEN DotFold(segments, i + 1, out)
  ELSE IF segments[i] = << ".", "." >>
  THEN DotFold(segments, i + 1,
               IF Len(out) > 1 THEN SubSeq(out, 1, Len(out) - 1) ELSE out)
  ELSE DotFold(segments, i + 1, Append(out, segments[i]))

RemoveDots(path) == Join(DotFold(Split(path, "/"), 1, << >>), "/")

\* The URL in the form a fetch of it uses: scheme in lower case, dot segments
\* removed.
Canonical(url) ==
  LET u == UrlParts(url)
  IN  toLowerCase(u.scheme) \o << ":", "/", "/" >> \o u.authority
        \o RemoveDots(u.path) \o u.query

\* The absolute URL a reference found in the document at base stands for.
Resolve(base, ref) ==
  LET b      == UrlParts(base)
      origin == b.scheme \o << ":", "/", "/" >> \o b.authority
      dir    == SubSeq(b.path, 1, lastIndexOf(b.path, "/") + 1)
  IN  IF HasScheme(ref) THEN ref
      ELSE IF startsWith(ref, << "/", "/" >>) THEN b.scheme \o << ":" >> \o ref
      ELSE IF startsWith(ref, << "/" >>) THEN origin \o RemoveDots(ref)
      ELSE origin \o RemoveDots(dir \o ref)

\* C27: every segment-reference line of a manifest is replaced by the relay
\* base URL plus a valid token that decodes to the absolute source URL the
\* reference stands for, relative references resolved against the manifest
\* URL by the standard rules (root-relative, parent, manifest URL with query).
C27_ReferencesResolve ==
  PlaylistSent =>
    \A i \in 1..Len(InputLines) :
      IsUrlLine(trim(InputLines[i])) =>
        /\ i <= Len(res.body.lines)
        /\ res.body.lines[i].text = StreamPrefix
        /\ res.body.lines[i].token.valid
        /\ Canonical(decodeUniversalToken(res.body.lines[i].token).sourceUrl)
             = Canonical(Resolve(pc.data.sourceUrl, trim(InputLines[i])))

\* The reference has a scheme prefix, in any letter case, or is of the
\* protocol-relative form //host.
HasSchemePrefix(ref) == HasScheme(ref) \/ startsWith(ref, << "/", "/" >>)

\* C28: a reference with a scheme prefix (any scheme, any letter case, or
\* protocol-relative) is never prefixed with the manifest's base URL: it is
\* tokenized as it is.
C28_SchemeNeverPrefixed ==
  PlaylistSent =>
    \A i \in 1..Len(InputLines) :
      (IsUrlLine(trim(InputLines[i])) /\ HasSchemePrefix(trim(InputLines[i]))) =>
        /\ i <= Len(res.body.lines)
        /\ res.body.lines[i].token.sourceUrl = trim(InputLines[i])

\* C29: every token minted while rewriting a manifest carries the buffering
\* and proxy option values of the parent manifest's token, and the media kind
\* 'segment'.
C29_SegmentOptions ==
  PlaylistSent =>
    \A i \in 1..Len(res.body.lines) :
      res.body.lines[i].token # NoToken =>
        decodeUniversalToken(res.body.lines[i].token).options
          = Options(pc.data.options.buffer, pc.data.options.proxy, "segment")

\* A playlist fetched with a token issued without buffering, with a URL line.
C29_Witness ==
  /\ PlaylistSent
  /\ ~ pc.data.options.buffer
  /\ pc.data.options.proxy
  /\ \E i \in 1..Len(res.body.lines) :
       /\ res.body.lines[i].token.valid
       /\ ~ res.body.lines[i].token.options.buffer
       /\ res.body.lines[i].token.options.type = "segment"

\* The relay has delivered, to its end, a response of an HLS source that the
\* origin announces as a playlist: fetched by the token of a generated proxy
\* URL, or by a token read in a playlist the relay rewrote.
PlaylistDelivered ==
  /\ pc.route = "universal"
  /\ pc.data.options.type \in {"HLS", "segment"}
  /\ IsPlaylistType(pc.contentType)
  /\ pc.event = "end"
  /\ res.ended

\* The lines of the body the client received.
ClientLines ==
  IF res.body.kind = "playlist" THEN res.body.lines
  ELSE LET lines == Split(res.body.bytes, LF)
       IN  [ i \in 1..Len(lines) |-> TextLine(lines[i]) ]

\* C30: a client that starts from the proxy URL of an HLS source and follows
\* the references it is given never receives an upstream URL: every playlist
\* the relay delivers, one fetched by a token minted from a master playlist
\* included, has all its URL lines rewritten to relay tokens.
C30_NoUpstreamUrl ==
  PlaylistDelivered =>
    \A i \in 1..Len(ClientLines) :
      (ClientLines[i].token # NoToken) \/ ~ IsUrlLine(trim(ClientLines[i].text))

\* An analysis has been sent: by /analyze, or by /generate-link in full mode.
Analyzed == api.at = "done" /\ Len(api.qualityInfo.qualityOptions) > 0

\* The options of the analysis sent, and the preset tiers by their heights.
SentOptions == api.qualityInfo.qualityOptions
TierHeights == { << "1080p", 1080 >>, << "720p", 720 >>, << "480p", 480 >>, << "360p", 360 >> }

\* C31: the ids of a list of quality options are unique; the list always holds
\* 'original' with the source's own width, height and bitrate; it holds a
\* preset tier exactly if the tier's height is at most the source height, so
\* that no option is higher than the source.
C31_OptionsNeverUpscale ==
  Analyzed =>
    /\ \A i, j \in 1..Len(SentOptions) : SentOptions[i].id = SentOptions[j].id => i = j
    /\ \E i \in 1..Len(SentOptions) :
         /\ SentOptions[i].id = "original"
         /\ SentOptions[i].width = api.qualityInfo.width
         /\ SentOptions[i].height = api.qualityInfo.height
         /\ SentOptions[i].bitrate = api.qualityInfo.bitrate
    /\ \A tier \in TierHeights :
         (\E i \in 1..Len(SentOptions) :
            SentOptions[i].id = tier[1] /\ SentOptions[i].height = tier[2])
           <=> tier[2] <= api.qualityInfo.height
    /\ \A i \in 1..Len(SentOptions) :
         /\ SentOptions[i].height <= api.qualityInfo.height
         /\ SentOptions[i].id \in {"original"} \cup { tier[1] : tier \in TierHeights }

\* A 1920x1080 source analysed: original, 1080p, 720p, 480p and 360p.
C31_Witness ==
  /\ Analyzed
  /\ api.qualityInfo.width = 1920
  /\ api.qualityInfo.height = 1080
  /\ { SentOptions[i].id : i \in 1..Len(SentOptions) }
       = {"original", "1080p", "720p", "480p", "360p"}

\* The target bitrates of the preset tiers.
TierBitrates ==
  { << "1080p", 8000000 >>, << "720p", 5000000 >>, << "480p", 2500000 >>,
    << "360p", 1000000 >> }

\* b is byteSize * 8 / (ms / 1000) rounded to the nearest integer, halves up.
IsRounded(b, byteSize, ms) ==
  /\ 2 * b * ms - ms <= 2 * byteSize * 8000
  /\ 2 * byteSize * 8000 < 2 * b * ms + ms

\* C32: every option but the original has the bitrate min(preset target
\* bitrate, source bitrate), never above the source bitrate, where the source
\* bitrate is round(byteSize * 8 / durationSeconds) for a duration above 0 and
\* 0 otherwise.
C32_BitrateCapped ==
  Analyzed =>
    /\ \A i \in 1..Len(SentOptions) : \A tier \in TierBitrates :
         SentOptions[i].id = tier[1] =>
           /\ SentOptions[i].bitrate <= api.qualityInfo.bitrate
           /\ SentOptions[i].bitrate <= tier[2]
           /\ SentOptions[i].bitrate \in {api.qualityInfo.bitrate, tier[2]}
    /\ IF api.qualityInfo.durationMs > 0
       THEN IsRounded(api.qualityInfo.bitrate, api.qualityInfo.fileSize,
                      api.qualityInfo.durationMs)
       ELSE api.qualityInfo.bitrate = 0

\* A source of 2000 bytes and 3 ms (5333333 bit/s after rounding) of height
\* 1080: the 1080p option is capped by the source, the 720p one by its preset.
C32_Witness ==
  /\ Analyzed
  /\ api.qualityInfo.bitrate = 5333333
  /\ \E i, j \in 1..Len(SentOptions) :
       /\ SentOptions[i].id = "1080p" /\ SentOptions[i].bitrate = 5333333
       /\ SentOptions[j].id = "720p" /\ SentOptions[j].bitrate = 5000000

\* A request on /analyze or /generate-link has been answered with an error.
ApiFailed == api.at = "done" /\ api.res.body.error # ""

\* C33: every failed request ends in an outcome of the taxonomy: input error
\* or token error 400, not found 404, range error 416, upstream error 502,
\* upstream timeout 504.  No internal failure reaches the client as a 500.
C33_FailuresInTaxonomy ==
  ApiFailed => api.res.statusCode \in {400, 404, 416, 502, 504}

\* The mime types that name a video.
VideoMimes == { Mp4 }

\* C36: /generate-link mints a token, and inserts it into the token cache, only
\* after the metadata lookup has succeeded with a mime type that starts with
\* 'video/'; on missing parameters, an id that cannot be extracted, not found
\* and not a video, no token is generated and the token cache is unchanged.
C36_MintsAfterLookup ==
  [][ /\ (tokenCache' # tokenCache \/ issued' # issued \/ (api'.minted /\ ~ api.minted))
        => /\ api.at = "getFileInfo"
           /\ api.route = "generate-link"
           /\ api'.info.found
           /\ api'.info.mimeType \in VideoMimes
           /\ api'.res.statusCode = 200
      /\ (api'.at = "done" /\ api'.res.statusCode # 200)
        => (tokenCache' = tokenCache /\ issued' = issued /\ ~ api'.minted) ]_vars

\* A link sent for a video, with its token in the token cache.
C36_Witness ==
  /\ api.at = "done"
  /\ api.route = "generate-link"
  /\ api.minted
  /\ api.res.statusCode = 200
  /\ api.streamToken \in DOMAIN tokenCache
  /\ isVideo(api.info.mimeType)

\* The quality the token in streamUrl encodes: its quality character read back.
LinkTokenQuality == decompressQuality(SplitDot(api.streamToken)[2][1])

\* C39: in every full-mode success response of /generate-link the quality
\* encoded in the token of streamUrl is the id of the selectedQuality option of
\* the same response, also when the quality asked for is not among the options
\* of the source.
C39_TokenQualityIsSelected ==
  (api.at = "done" /\ api.minted /\ ~ api.quick) => LinkTokenQuality = api.selectedQuality

\* The token cache as the generateToken calls alone leave it: what a request
\* finds when no request was made before it.
AloneCache ==
  [ t \in DOMAIN issued |->
      [ fileId |-> issued[t].fileId, quality |-> issued[t].quality,
        timestamp |-> issued[t].at ] ]

\* A request on the Drive stream route has just read its token.
TokenRead == pc.route = "stream" /\ pc.at # "idle" /\ last.op = "decodeToken"

\* C34: repeated requests for the same token are safe to retry: a request's
\* outcome is the one it would have as the only request at that time; no
\* cache entry left by one request changes the outcome of another.
C34_RetrySafe ==
  TokenRead => (pc.valid <=> decodeToken(AloneCache, last.token, now).result # Null)

\* C35: the metadata cache is time-bounded: getFileInfo never returns cached
\* metadata whose entry is older than the TTL, but fetches it again; an
\* expired entry is evicted on the next access to its key; an insertion that
\* brings the cache above its size threshold sweeps out every entry older
\* than the TTL.
C35_CacheTimeBounded ==
  [][ drive'.last.flip # drive.last.flip =>
        LET k == drive'.last.fileId
        IN  /\ (drive'.last.op = "get" /\ drive'.last.hit) =>
                 /\ k \in DOMAIN fileInfoCache
                 /\ drive.now - fileInfoCache[k].timestamp < cacheTTL
            /\ ( /\ drive'.last.op = "get"
                 /\ k \in DOMAIN fileInfoCache
                 /\ drive.now - fileInfoCache[k].timestamp >= cacheTTL ) =>
                 /\ ~ drive'.last.hit
                 /\ k \notin DOMAIN fileInfoCache'
                 /\ drive'.pending[k] = drive.pending[k] + 1
            /\ ( /\ drive'.last.op = "set"
                 /\ Cardinality((DOMAIN fileInfoCache) \cup {k}) > MaxCached ) =>
                 \A f \in DOMAIN fileInfoCache' :
                   drive.now - fileInfoCache'[f].timestamp <= cacheTTL ]_vars

\* An insertion has swept an old entry out, and the cache holds a fresh one.
C35_Witness ==
  /\ drive.last.op = "set"
  /\ drive.last.swept > 0
  /\ \E f \in DOMAIN fileInfoCache : drive.now - fileInfoCache[f].timestamp < cacheTTL

\* The stream route has asked Drive for the content of the file.
ContentRequested == pc.route = "stream" /\ up.stream

\* The window a Range header value or a Content-Range value names: the text
\* between its unit prefix and, for Content-Range, the slash before the size.
UpstreamWindow == SubSeq(up.range, Len(BytesEq) + 1, Len(up.range))
DeclaredWindow ==
  SubSeq(res.contentRange, Len(BytesEq) + 1,
         Len(res.contentRange) - Len(Dec(parseInt(pc.size))) - 1)

HeadRequested == pc.route = "stream" /\ pc.method = "head" /\ pc.at # "idle"

\* C38: a HEAD request for /stream/{token}.mp4 never asks Drive for the
\* content of the file; with a valid token and the file found it is answered
\* 200 with Content-Length the size of the whole file, with an invalid token
\* 400, and with the file missing 404.
C38_HeadOpensNoStream ==
  HeadRequested =>
    /\ ~ up.stream
    /\ (pc.at = "done" /\ ~ pc.valid) => res.statusCode = 400
    /\ (pc.at = "done" /\ pc.event = "lookup null") => res.statusCode = 404
    /\ (pc.at = "done" /\ pc.event = "lookup") =>
         (res.statusCode = 200 /\ res.contentLength = pc.size /\ res.ended)


\* The worker awaits nothing: every message is answered and the load is done.
Quiescent == ext.tasks = << >>

\* C40: in the extension's worker, once every message is answered and the
\* load at start is done, every rule installed is recorded in activeRules
\* under its domain with its own id, the ids recorded are distinct; and at
\* no time are two rules installed for one domain.
C40_InstalledRulesRecorded ==
  /\ Quiescent =>
       /\ \A rule \in ext.dynamicRules :
            /\ rule.domain \in DOMAIN ext.activeRules
            /\ ext.activeRules[rule.domain] = rule.id
       /\ \A d1, d2 \in DOMAIN ext.activeRules :
            d1 # d2 => ext.activeRules[d1] # ext.activeRules[d2]
  /\ \A r1, r2 \in ext.dynamicRules : r1.domain = r2.domain => r1 = r2

====
